---- MODULE Spec2Model ----
(***************************************************************************)
(* Model of the AI conversation dispatcher of clivy-wa-support:            *)
(*   - intake   (handlers.HandleAIWebhook, services.Save*MessageToAIChat,  *)
(*               services.CleanupOldAIChatMessages)                        *)
(*   - queue    (table ai_jobs, table ai_job_attempts)                     *)
(*   - worker   (worker.AIWorker: processJobs, processJob, handleLLMError, *)
(*               permanentFailJob, failJob)                                *)
(*   - breaker  (services.CircuitBreaker)                                  *)
(* Every database statement of the code is one step of the model, so that  *)
(* the interleavings of the HTTP handlers, of the listener and sweeper     *)
(* goroutines and of the goroutines they spawn are the ones the database   *)
(* can see.                                                                *)
(***************************************************************************)
EXTENDS Integers, Sequences, FiniteSets, TLC

\* ------------------------------------------------------------------------
\* Program constants
\* ------------------------------------------------------------------------
MaxAttempts == 3
RetryDelay == 30
MaxFailures == 5
Cooldown == 60
MaxMessagesPerContact == 20
DefaultPriority == 5
FirstWindow == 10
SmallWindow == 5

\* ------------------------------------------------------------------------
\* Bounds of the model
\* ------------------------------------------------------------------------
NumMsgs == 2
\* jobs enqueued while both claimers run (Spec)
MaxJobs == 1
\* jobs enqueued while the sweeper runs alone (SpecSweeper)
SweeperJobs == 2
\* jobs enqueued by concurrent HTTP handlers (SpecIntake)
IntakeJobs == 2
\* jobs enqueued by the handler whose webhooks and failures vary (SpecGate)
GateJobs == 2
\* turns inserted in one run
MaxInserted == 4
MaxTime == 60
\* the clock of the runs that exercise the breaker alone (SpecBreaker)
BreakerMaxTime == 180
NumHandlers == 2

MsgIds == 1..NumMsgs
Handlers == 1..NumHandlers
Claimers == {"listener", "sweeper"}
NULL == -1

\* The clock advances in steps of the retry delay: 0, 30, 60, ...
TickStep == RetryDelay
\* A webhook carries the sender's timestamp: newer than every turn stored at
\* start, or older than all of them (a delayed delivery).
StaleTs == 0 - (MaxMessagesPerContact + 1)
WebhookTimestamps == {StaleTs, 0}

VARIABLES
    now,        \* wall clock (seconds)
    turns,      \* table ai_chat_messages of one (session, peer): rows
                \* [id, mid, ts, fromMe, isRead]
    nextTurnId, \* next primary key of ai_chat_messages
    jobs,       \* table ai_jobs: sequence of rows, the index is the id
    attempts,   \* table ai_job_attempts: per job id, its rows in order of creation
    hpc,        \* HTTP handler h: position in HandleAIWebhook
    hloc,       \* HTTP handler h: locals (mid, toDelete, oldMessageIDs, aiJob.ID)
    hresp,      \* HTTP handler h: last response
    pc,         \* claimer c: position in processJobs/processJob
    cur,        \* claimer c: locals (job, attempt, in-memory job.Attempts, error)
    cb,         \* openRouterCB: [failures, isOpen, lastFailure]
    spc,        \* saver goroutine spawned by claimer c: position
    sloc,       \* saver goroutine: locals of CleanupOldAIChatMessages
    sent,       \* per job: number of sends the chat server confirmed
    claims,     \* per job: number of committed claims
    cbRet,      \* a direct caller of the breaker: the last operation and its result
    life,       \* func main: its phase (serving, stopped after aiWorker.Stop(),
                \* returned) and the jobs in processing when Stop was called
    hreq,       \* HTTP handler h: the webhook it answered last
    notified,   \* per job: notifications raised on ai_jobs_channel for its row
    usage,      \* per job: the usage-log entries issued for it, in order
    lost,       \* claimer c: a best-effort step of its current claim has failed
    kb,         \* a call of filterRelevantDocuments: its arguments and its result
    lk          \* openRouterCB.mu and the position of each goroutine inside
                \* Call, IsOpen or Reset

vars == <<now, turns, nextTurnId, jobs, attempts, hpc, hloc, hresp, pc, cur, cb,
          spc, sloc, sent, claims, cbRet, life, hreq, notified, usage, lost,
          kb, lk>>

\* ------------------------------------------------------------------------
\* Tables
\* ------------------------------------------------------------------------
\* The stored conversation when the process starts: either empty or holding
\* MaxMessagesPerContact turns with pairwise distinct timestamps before 0.
\* mid 0 stands for a message id outside MsgIds.
\* The stored turns alternate between the peer's and the bot's, and are read.
HistoryRows(n) ==
    { [id |-> i, mid |-> 0, ts |-> i - (n + 1), fromMe |-> (i % 2 = 0), isRead |-> TRUE] :
        i \in 1..n }

StoredMids == { r.mid : r \in turns }

\* db.Where("message_id = ?", id).First(&msg): does the row exist
TurnExists(m) == m \in StoredMids

\* ORDER BY timestamp ASC LIMIT k: every result the database may return
\* (rows of equal timestamp come in any order).
OldestSets(rows, k) ==
    LET n == IF k < Cardinality(rows) THEN k ELSE Cardinality(rows)
    IN  { S \in { L \cup T :
                    L \in { {r \in rows : r.ts < t} : t \in {q.ts : q \in rows} },
                    T \in UNION { SUBSET {r \in rows : r.ts = t} : t \in {q.ts : q \in rows} } } :
            /\ Cardinality(S) = n
            /\ \A r \in S, q \in rows \ S : r.ts <= q.ts }

\* ------------------------------------------------------------------------
\* services.CleanupOldAIChatMessages: three statements, not one transaction.
\* Each operator gives the caller's next position and locals; "after" is the
\* position of the caller once the cleanup has returned.
\* ------------------------------------------------------------------------
IdleLoc == [mid |-> 0, toDelete |-> 0, old |-> {}, job |-> 0]

\* SELECT count(*) ... ; if count <= MaxMessagesPerContact return nil
CleanupCountStep(loc, after) ==
    LET count == Cardinality(turns) IN
    IF count <= MaxMessagesPerContact
    THEN [pc |-> after, loc |-> loc]
    ELSE [pc |-> "pluck", loc |-> [loc EXCEPT !.toDelete = count - MaxMessagesPerContact]]

\* Order("timestamp ASC").Limit(toDelete).Pluck("id", &oldMessageIDs)
CleanupPluckSteps(loc, after) ==
    { IF S = {}
      THEN [pc |-> after, loc |-> [loc EXCEPT !.toDelete = 0]]
      ELSE [pc |-> "delete", loc |-> [loc EXCEPT !.old = {r.id : r \in S}]]
      : S \in OldestSets(turns, loc.toDelete) }

\* db.Where("id IN ?", oldMessageIDs).Delete(...)
CleanupDeleteRows(loc) == {r \in turns : r.id \notin loc.old}

\* ------------------------------------------------------------------------
\* Intake: handlers.HandleAIWebhook
\* ------------------------------------------------------------------------
InFlight == Cardinality({h \in Handlers : hpc[h] # "idle"})

\* turns inserted since the start (the start had 0 or MaxMessagesPerContact rows)
Inserted ==
    IF nextTurnId > MaxMessagesPerContact
    THEN nextTurnId - 1 - MaxMessagesPerContact
    ELSE nextTurnId - 1

\* A webhook, as far as the handler looks at it: whether the JSON body binds
\* to WebhookPayload, Event.Info.IsFromMe, Event.Info.Type,
\* Event.Message.ExtendedTextMessage.Text, Event.Message.Conversation, and
\* InstanceName (the session token).
Good == [parses |-> TRUE, fromMe |-> FALSE, type |-> "text", ext |-> "", conv |-> "hi",
         session |-> "active"]

\* No request yet
NoWebhook == [parses |-> FALSE, fromMe |-> FALSE, type |-> "", ext |-> "", conv |-> "",
              session |-> ""]

Webhooks ==
    { Good,
      [Good EXCEPT !.ext = "hello"],
      [Good EXCEPT !.ext = "hello", !.conv = ""],
      [Good EXCEPT !.parses = FALSE],
      [Good EXCEPT !.fromMe = TRUE],
      [Good EXCEPT !.type = "image"],
      [Good EXCEPT !.conv = " "],
      [Good EXCEPT !.conv = ""],
      [Good EXCEPT !.ext = " "],
      [Good EXCEPT !.session = "unknown"],
      [Good EXCEPT !.session = "botOff"],
      [Good EXCEPT !.session = "subOff"],
      [Good EXCEPT !.fromMe = TRUE, !.session = "unknown"] }

\* What the transactional service knows of each session token
SessionTable ==
    [active |-> [UserID |-> "u1", BotActive |-> TRUE,  SubscriptionActive |-> TRUE],
     botOff |-> [UserID |-> "u2", BotActive |-> FALSE, SubscriptionActive |-> TRUE],
     subOff |-> [UserID |-> "u3", BotActive |-> TRUE,  SubscriptionActive |-> FALSE]]

\* services.ResolveSession: err # nil when the token is not known
ResolveSessionFails(tok) == tok \notin DOMAIN SessionTable
ResolveSession(tok) == SessionTable[tok]

\* strings.TrimSpace over the texts of the model
TrimSpace(t) == IF t \in {"", " "} THEN "" ELSE t

\* body: ExtendedTextMessage.Text when it is not empty, else Conversation
Body(w) == IF w.ext # "" THEN w.ext ELSE w.conv

\* Mutant: the handler without the subscription guard.
GateNoSubscriptionGuard(w) ==
    IF ~w.parses THEN "badPayload"
    ELSE IF w.fromMe THEN "ownMessage"
    ELSE IF w.type # "text" \/ TrimSpace(Body(w)) = "" THEN "nonText"
    ELSE IF ResolveSessionFails(w.session) THEN "noSession"
    ELSE IF ~ResolveSession(w.session).BotActive THEN "botInactive"
    ELSE "pass"

\* HandleAIWebhook up to the first write: the response of the early return
\* the webhook takes, or "pass"
Gate(w) ==
    IF ~w.parses THEN "badPayload"
    ELSE IF w.fromMe THEN "ownMessage"
    ELSE IF w.type # "text" \/ TrimSpace(Body(w)) = "" THEN "nonText"
    ELSE IF ResolveSessionFails(w.session) THEN "noSession"
    ELSE IF ~ResolveSession(w.session).BotActive THEN "botInactive"
    ELSE IF ~ResolveSession(w.session).SubscriptionActive THEN "subInactive"
    ELSE "pass"

\* Mutant: a failed job insert is answered 200.
StatusOfEnqueueFailureOk(resp) ==
    IF resp = "badPayload" THEN 400
    ELSE IF resp = "saveFailed" THEN 500
    ELSE 200

\* the HTTP status of each response of the handler
StatusOf(resp) ==
    IF resp = "badPayload" THEN 400
    ELSE IF resp \in {"saveFailed", "enqueueFailed"} THEN 500
    ELSE 200

\* A webhook stopped by a gate: the early return, nothing is written
Reject(h, w) ==
    /\ hpc[h] = "idle"
    /\ Gate(w) # "pass"
    /\ hreq' = [hreq EXCEPT ![h] = w]
    /\ hresp' = [hresp EXCEPT ![h] = Gate(w)]
    /\ UNCHANGED <<kb, lk, lost, notified, usage, cbRet, life, now, turns, nextTurnId, jobs, attempts, hpc,
                   hloc, pc, cur, cb, spc, sloc, sent, claims>>

\* A webhook that passes every gate: db.Create(&msg) in
\* SaveIncomingMessageToAIChat; the unique index on message_id rejects a
\* stored id ("duplicate key"), which is answered 200 "Duplicate message".
Receive(h, w, m, ts, cap) ==
    /\ hpc[h] = "idle"
    /\ Len(jobs) + InFlight < cap
    /\ Inserted < MaxInserted
    /\ Gate(w) = "pass"
    /\ hreq' = [hreq EXCEPT ![h] = w]
    /\ IF TurnExists(m)
       THEN /\ hresp' = [hresp EXCEPT ![h] = "duplicate"]
            /\ UNCHANGED <<turns, nextTurnId, hpc, hloc>>
       ELSE /\ turns' = turns \cup {[id |-> nextTurnId, mid |-> m, ts |-> ts,
                                     fromMe |-> FALSE, isRead |-> FALSE]}
            /\ nextTurnId' = nextTurnId + 1
            /\ hpc' = [hpc EXCEPT ![h] = "count"]
            /\ hloc' = [hloc EXCEPT ![h] = [IdleLoc EXCEPT !.mid = m]]
            /\ hresp' = [hresp EXCEPT ![h] = "none"]
    /\ UNCHANGED <<kb, lk, lost, notified, usage, cbRet, life, now, jobs, attempts, pc, cur, cb, spc, sloc, sent, claims>>

\* db.Create(&msg) fails for another reason than the unique index:
\* 500 "Failed to save message"
ReceiveFails(h, w) ==
    /\ hpc[h] = "idle"
    /\ Gate(w) = "pass"
    /\ hreq' = [hreq EXCEPT ![h] = w]
    /\ hresp' = [hresp EXCEPT ![h] = "saveFailed"]
    /\ UNCHANGED <<kb, lk, lost, notified, usage, cbRet, life, now, turns, nextTurnId, jobs, attempts, hpc,
                   hloc, pc, cur, cb, spc, sloc, sent, claims>>

\* A statement of CleanupOldAIChatMessages fails: SaveIncomingMessageToAIChat
\* returns its error, 500 "Failed to save message"; the turn stays stored
IntakeCleanupFails(h) ==
    /\ hpc[h] \in {"count", "pluck", "delete"}
    /\ hpc' = [hpc EXCEPT ![h] = "idle"]
    /\ hloc' = [hloc EXCEPT ![h] = IdleLoc]
    /\ hresp' = [hresp EXCEPT ![h] = "saveFailed"]
    /\ UNCHANGED <<kb, lk, lost, hreq, notified, usage, cbRet, life, now, turns, nextTurnId, jobs, attempts,
                   pc, cur, cb, spc, sloc, sent, claims>>

IntakeCleanupCount(h) ==
    /\ hpc[h] = "count"
    /\ LET r == CleanupCountStep(hloc[h], "enqueue") IN
          /\ hpc' = [hpc EXCEPT ![h] = r.pc]
          /\ hloc' = [hloc EXCEPT ![h] = r.loc]
    /\ UNCHANGED <<kb, lk, lost, hreq, notified, usage, cbRet, life, now, turns, nextTurnId, jobs, attempts, hresp, pc, cur, cb,
                   spc, sloc, sent, claims>>

IntakeCleanupPluck(h) ==
    /\ hpc[h] = "pluck"
    /\ \E r \in CleanupPluckSteps(hloc[h], "enqueue") :
          /\ hpc' = [hpc EXCEPT ![h] = r.pc]
          /\ hloc' = [hloc EXCEPT ![h] = r.loc]
    /\ UNCHANGED <<kb, lk, lost, hreq, notified, usage, cbRet, life, now, turns, nextTurnId, jobs, attempts, hresp, pc, cur, cb,
                   spc, sloc, sent, claims>>

IntakeCleanupDelete(h) ==
    /\ hpc[h] = "delete"
    /\ turns' = CleanupDeleteRows(hloc[h])
    /\ hpc' = [hpc EXCEPT ![h] = "enqueue"]
    /\ hloc' = [hloc EXCEPT ![h].old = {}, ![h].toDelete = 0]
    /\ UNCHANGED <<kb, lk, lost, hreq, notified, usage, cbRet, life, now, nextTurnId, jobs, attempts, hresp, pc, cur, cb,
                   spc, sloc, sent, claims>>

NoMsg == <<>>

\* output_json of a job that has none
NoOutput == [response |-> "", input_tokens |-> 0, output_tokens |-> 0, latency_ms |-> 0]

\* Mutant: input_json is taken from Conversation alone.
NewJobConversationOnly(m, w) ==
    [status |-> "pending", priority |-> DefaultPriority, mid |-> m, attempts |-> 0,
     next_run_at |-> NULL, error_msg |-> NoMsg, output |-> NoOutput,
     input |-> w.conv, user |-> ResolveSession(w.session).UserID,
     updated_at |-> now]

\* aiJob := models.AIJob{...} for message m of webhook w
NewJob(m, w) ==
    [status |-> "pending", priority |-> DefaultPriority, mid |-> m, attempts |-> 0,
     next_run_at |-> NULL, error_msg |-> NoMsg, output |-> NoOutput,
     input |-> Body(w), user |-> ResolveSession(w.session).UserID,
     updated_at |-> now]

\* db.Create(&aiJob) and the 200 "queued" response
Enqueue(h) ==
    /\ hpc[h] = "enqueue"
    /\ jobs' = Append(jobs, NewJob(hloc[h].mid, hreq[h]))
    /\ attempts' = Append(attempts, <<>>)
    /\ sent' = Append(sent, 0)
    /\ claims' = Append(claims, 0)
    /\ notified' = Append(notified, 1)
    /\ usage' = Append(usage, <<>>)
    /\ hpc' = [hpc EXCEPT ![h] = "idle"]
    /\ hloc' = [hloc EXCEPT ![h] = [IdleLoc EXCEPT !.job = Len(jobs) + 1]]
    /\ hresp' = [hresp EXCEPT ![h] = "queued"]
    /\ UNCHANGED <<kb, lk, lost, hreq, cbRet, life, now, turns, nextTurnId, pc, cur, cb, spc, sloc>>

\* db.Create(&aiJob) fails: 500 "Failed to enqueue job"
EnqueueFails(h) ==
    /\ hpc[h] = "enqueue"
    /\ hpc' = [hpc EXCEPT ![h] = "idle"]
    /\ hloc' = [hloc EXCEPT ![h] = IdleLoc]
    /\ hresp' = [hresp EXCEPT ![h] = "enqueueFailed"]
    /\ UNCHANGED <<kb, lk, lost, hreq, notified, usage, cbRet, life, now, turns, nextTurnId, jobs, attempts,
                   pc, cur, cb, spc, sloc, sent, claims>>

\* ------------------------------------------------------------------------
\* Errors of the model call and services.ParseSDKError
\* An error is [api, code, phrases]: whether it is an *openai.APIError, its
\* HTTP status, and which of the phrases ParseSDKError and
\* IsContextLengthError look for occur in its lower-cased message.
\* ------------------------------------------------------------------------
ErrAuth       == [api |-> TRUE,  code |-> 401, phrases |-> {}]
ErrPayment    == [api |-> TRUE,  code |-> 402, phrases |-> {}]
ErrModeration == [api |-> TRUE,  code |-> 403, phrases |-> {}]
ErrContext    == [api |-> TRUE,  code |-> 400, phrases |-> {"context", "length"}]
ErrRateLimit  == [api |-> TRUE,  code |-> 429, phrases |-> {"rate limit"}]
\* context.DeadlineExceeded of the 120 s timeout: "context deadline exceeded"
ErrDeadline   == [api |-> FALSE, code |-> 0, phrases |-> {"context", "deadline exceeded", "exceeded"}]
\* fmt.Errorf("no response from LLM")
ErrNoChoices  == [api |-> FALSE, code |-> 0, phrases |-> {"no response"}]
\* fmt.Errorf("circuit breaker %s is open (cooldown until %v)", ...)
ErrBreakerOpen == [api |-> FALSE, code |-> 0, phrases |-> {"circuit breaker", "is open"}]

\* fn returned nil
NoError == [api |-> FALSE, code |-> 200, phrases |-> {}]
IsOk(e) == e.code = 200

ModelErrors == {ErrAuth, ErrPayment, ErrModeration, ErrContext, ErrRateLimit,
                ErrDeadline, ErrNoChoices}

Has(e, ph) == ph \in e.phrases

ParseSDKError(e) ==
    IF e.api THEN [StatusCode |-> e.code, msg |-> e.phrases]
    ELSE IF Has(e, "timeout") \/ Has(e, "deadline exceeded")
         THEN [StatusCode |-> 408, msg |-> {"timeout"}]
    ELSE IF Has(e, "context") /\ (Has(e, "length") \/ Has(e, "too long"))
         THEN [StatusCode |-> 400, msg |-> e.phrases]
    ELSE IF Has(e, "unauthorized") \/ Has(e, "invalid api key")
         THEN [StatusCode |-> 401, msg |-> {}]
    ELSE IF Has(e, "insufficient") \/ Has(e, "quota") \/ Has(e, "billing")
         THEN [StatusCode |-> 402, msg |-> {"insufficient", "quota", "exceeded"}]
    ELSE IF Has(e, "rate limit") \/ Has(e, "too many requests")
         THEN [StatusCode |-> 429, msg |-> {"rate limit", "exceeded"}]
    ELSE IF Has(e, "bad gateway")
         THEN [StatusCode |-> 502, msg |-> {"bad gateway"}]
    ELSE IF Has(e, "service unavailable") \/ Has(e, "temporarily unavailable")
         THEN [StatusCode |-> 503, msg |-> {"temporarily unavailable"}]
    ELSE [StatusCode |-> 500, msg |-> e.phrases]

\* Mutant: status 500 counted among the retryable ones.
IsRetryableWith500(o) == o.StatusCode \in {408, 429, 500, 502, 503}

IsRetryable(o) == o.StatusCode \in {408, 429, 502, 503}
IsAuthError(o) == o.StatusCode = 401
IsPaymentError(o) == o.StatusCode = 402
IsModerationError(o) == o.StatusCode = 403
IsContextLengthError(o) ==
    /\ o.StatusCode = 400
    /\ "context" \in o.msg
    /\ ("length" \in o.msg \/ "exceeded" \in o.msg \/ "too long" \in o.msg)

\* ------------------------------------------------------------------------
\* services.CircuitBreaker.Call, as one step under cb.mu
\* ------------------------------------------------------------------------
NewCircuitBreaker == [failures |-> 0, isOpen |-> FALSE, lastFailure |-> 0]

\* Mutant: the cooldown test is time.Since(cb.lastFailure) >= cb.cooldown.
CBRejectsUntilCooldown == cb.isOpen /\ ~(now - cb.lastFailure >= Cooldown)

\* if cb.isOpen and not time.Since(cb.lastFailure) > cb.cooldown: rejected
CBRejects == cb.isOpen /\ ~(now - cb.lastFailure > Cooldown)

\* Mutant: a successful call leaves the failure count as it is.
CBAfterCallNoReset(outcome) ==
    LET half == IF cb.isOpen THEN [cb EXCEPT !.isOpen = FALSE, !.failures = 0] ELSE cb
    IN  IF IsOk(outcome)
        THEN half
        ELSE [half EXCEPT !.failures = half.failures + 1,
                          !.lastFailure = now,
                          !.isOpen = (half.failures + 1 >= MaxFailures)]

\* Mutant: the timed edge out of Open keeps the failure count.
CBAfterCallKeepsCount(outcome) ==
    LET half == IF cb.isOpen THEN [cb EXCEPT !.isOpen = FALSE] ELSE cb
    IN  IF IsOk(outcome)
        THEN [half EXCEPT !.failures = 0]
        ELSE [half EXCEPT !.failures = half.failures + 1,
                          !.lastFailure = now,
                          !.isOpen = (half.failures + 1 >= MaxFailures)]

\* Mutant: the breaker opens when cb.failures > cb.maxFailures.
CBAfterCallOpensLate(outcome) ==
    LET half == IF cb.isOpen THEN [cb EXCEPT !.isOpen = FALSE, !.failures = 0] ELSE cb
    IN  IF IsOk(outcome)
        THEN [half EXCEPT !.failures = 0]
        ELSE [half EXCEPT !.failures = half.failures + 1,
                          !.lastFailure = now,
                          !.isOpen = (half.failures + 1 > MaxFailures)]

\* the breaker after fn has run and returned outcome (NoError or an error)
CBAfterCall(outcome) ==
    LET half == IF cb.isOpen THEN [cb EXCEPT !.isOpen = FALSE, !.failures = 0] ELSE cb
    IN  IF IsOk(outcome)
        THEN [half EXCEPT !.failures = 0]
        ELSE [half EXCEPT !.failures = half.failures + 1,
                          !.lastFailure = now,
                          !.isOpen = (half.failures + 1 >= MaxFailures)]

\* A direct caller of the breaker's public operations.  cbRet records the
\* last operation: whether Call invoked fn, whether it first took the timed
\* edge out of Open (half-open), what fn returned and what Call returned, what
\* IsOpen returned, and streak: the invoked calls that have failed since the
\* last successful call, the last timed edge or the last Reset.
IdleRet == [op |-> "none", invoked |-> FALSE, halfOpen |-> FALSE, fnErr |-> NoError,
            err |-> NoError, open |-> FALSE, streak |-> 0]

\* cb.Call(fn) where fn returns outcome
BreakerCall ==
    /\ \E outcome \in {NoError} \cup ModelErrors :
          IF CBRejects
          THEN /\ cbRet' = [IdleRet EXCEPT !.op = "Call", !.err = ErrBreakerOpen,
                                           !.streak = cbRet.streak]
               /\ UNCHANGED cb
          ELSE /\ cb' = CBAfterCall(outcome)
               /\ cbRet' = [IdleRet EXCEPT
                               !.op = "Call", !.invoked = TRUE, !.halfOpen = cb.isOpen,
                               !.fnErr = outcome, !.err = outcome,
                               !.streak = IF IsOk(outcome) THEN 0
                                          ELSE IF cb.isOpen THEN 1
                                          ELSE cbRet.streak + 1]
    /\ UNCHANGED <<kb, lk, lost, hreq, notified, usage, life, now, turns, nextTurnId, jobs, attempts, hpc, hloc, hresp, pc,
                   cur, spc, sloc, sent, claims>>

\* cb.IsOpen()
BreakerIsOpen ==
    /\ cbRet' = [IdleRet EXCEPT !.op = "IsOpen", !.open = cb.isOpen,
                                !.streak = cbRet.streak]
    /\ UNCHANGED <<kb, lk, lost, hreq, notified, usage, life, now, turns, nextTurnId, jobs, attempts, hpc, hloc, hresp, pc,
                   cur, cb, spc, sloc, sent, claims>>

\* cb.Reset()
BreakerReset ==
    /\ cb' = [cb EXCEPT !.failures = 0, !.isOpen = FALSE]
    /\ cbRet' = [IdleRet EXCEPT !.op = "Reset"]
    /\ UNCHANGED <<kb, lk, lost, hreq, notified, usage, life, now, turns, nextTurnId, jobs, attempts, hpc, hloc, hresp, pc,
                   cur, spc, sloc, sent, claims>>

\* time passes for the caller of the breaker
BreakerTick ==
    /\ now + TickStep <= BreakerMaxTime
    /\ now' = now + TickStep
    /\ UNCHANGED <<kb, lk, lost, hreq, notified, usage, cbRet, life, turns, nextTurnId, jobs, attempts, hpc, hloc, hresp, pc,
                   cur, cb, spc, sloc, sent, claims>>

\* ------------------------------------------------------------------------
\* services.CircuitBreaker, statement by statement under cb.mu
\* ------------------------------------------------------------------------
\* The goroutines that use openRouterCB: the listener and the sweeper call
\* Call from processJob, and a caller of the public IsOpen and Reset.
Callers == Claimers \cup {"operator"}

\* writer, readers: the holders of cb.mu; pos: where each goroutine is.
\* "out": in none of the operations; "wantCall", "wantIsOpen", "wantReset":
\* invoked and waiting for the lock; "check", "fn", "after": inside Call
\* before, during and after fn(); "read": inside IsOpen; "reset": inside Reset.
IdleLock == [writer |-> "none", readers |-> {}, pos |-> [g \in Callers |-> "out"]]

InFn == { g \in Callers : lk.pos[g] = "fn" }

\* a goroutine invokes Call, IsOpen or Reset
Invoke(g, op) ==
    /\ lk.pos[g] = "out"
    /\ lk' = [lk EXCEPT !.pos[g] = op]
    /\ UNCHANGED cb
    /\ UNCHANGED <<kb, lost, hreq, notified, usage, cbRet, life, now, turns, nextTurnId, jobs, attempts, hpc, hloc,
                   hresp, pc, cur, spc, sloc, sent, claims>>
\* cb.mu.Lock() of Call or Reset: granted when nobody holds the lock
Lock(g) ==
    /\ lk.pos[g] \in {"wantCall", "wantReset"}
    /\ lk.writer = "none" /\ lk.readers = {}
    /\ lk' = [lk EXCEPT !.writer = g,
                        !.pos[g] = IF lk.pos[g] = "wantCall" THEN "check" ELSE "reset"]
    /\ UNCHANGED cb
    /\ UNCHANGED <<kb, lost, hreq, notified, usage, cbRet, life, now, turns, nextTurnId, jobs, attempts, hpc, hloc,
                   hresp, pc, cur, spc, sloc, sent, claims>>
\* Mutant: Call releases the lock before it runs fn.
CallCheckUnlocksBeforeFn(g) ==
    /\ lk.pos[g] = "check"
    /\ lk.writer = g
    /\ IF CBRejects
       THEN /\ lk' = [lk EXCEPT !.pos[g] = "out", !.writer = "none"]
            /\ UNCHANGED cb
       ELSE /\ cb' = IF cb.isOpen THEN [cb EXCEPT !.isOpen = FALSE, !.failures = 0] ELSE cb
            /\ lk' = [lk EXCEPT !.pos[g] = "fn", !.writer = "none"]
    /\ UNCHANGED <<kb, lost, hreq, notified, usage, cbRet, life, now, turns, nextTurnId, jobs, attempts, hpc, hloc,
                   hresp, pc, cur, spc, sloc, sent, claims>>
\* Call: the test of cb.isOpen and of the cooldown; a rejected call returns
\* (the deferred Unlock runs), otherwise fn() starts
CallCheck(g) ==
    /\ lk.pos[g] = "check"
    /\ lk.writer = g
    /\ IF CBRejects
       THEN /\ lk' = [lk EXCEPT !.pos[g] = "out", !.writer = "none"]
            /\ UNCHANGED cb
       ELSE /\ cb' = IF cb.isOpen THEN [cb EXCEPT !.isOpen = FALSE, !.failures = 0] ELSE cb
            /\ lk' = [lk EXCEPT !.pos[g] = "fn"]
    /\ UNCHANGED <<kb, lost, hreq, notified, usage, cbRet, life, now, turns, nextTurnId, jobs, attempts, hpc, hloc,
                   hresp, pc, cur, spc, sloc, sent, claims>>
\* Call: fn() returns outcome and the counters are written
CallFnReturns(g) ==
    /\ lk.pos[g] = "fn"
    /\ \E outcome \in {NoError} \cup ModelErrors :
          cb' = IF IsOk(outcome)
                THEN [cb EXCEPT !.failures = 0]
                ELSE [cb EXCEPT !.failures = cb.failures + 1,
                                !.lastFailure = now,
                                !.isOpen = (cb.isOpen \/ cb.failures + 1 >= MaxFailures)]
    /\ lk' = [lk EXCEPT !.pos[g] = "after"]
    /\ UNCHANGED <<kb, lost, hreq, notified, usage, cbRet, life, now, turns, nextTurnId, jobs, attempts, hpc, hloc,
                   hresp, pc, cur, spc, sloc, sent, claims>>
\* Call: return; the deferred cb.mu.Unlock() runs
CallReturn(g) ==
    /\ lk.pos[g] = "after"
    /\ lk' = [lk EXCEPT !.pos[g] = "out",
                        !.writer = IF lk.writer = g THEN "none" ELSE lk.writer]
    /\ UNCHANGED cb
    /\ UNCHANGED <<kb, lost, hreq, notified, usage, cbRet, life, now, turns, nextTurnId, jobs, attempts, hpc, hloc,
                   hresp, pc, cur, spc, sloc, sent, claims>>
\* IsOpen: cb.mu.RLock(), granted when no writer holds the lock
IsOpenRLock(g) ==
    /\ lk.pos[g] = "wantIsOpen"
    /\ lk.writer = "none"
    /\ lk' = [lk EXCEPT !.readers = @ \cup {g}, !.pos[g] = "read"]
    /\ UNCHANGED cb
    /\ UNCHANGED <<kb, lost, hreq, notified, usage, cbRet, life, now, turns, nextTurnId, jobs, attempts, hpc, hloc,
                   hresp, pc, cur, spc, sloc, sent, claims>>
\* IsOpen: return cb.isOpen; the deferred RUnlock runs
IsOpenReturn(g) ==
    /\ lk.pos[g] = "read"
    /\ lk' = [lk EXCEPT !.readers = @ \ {g}, !.pos[g] = "out"]
    /\ UNCHANGED cb
    /\ UNCHANGED <<kb, lost, hreq, notified, usage, cbRet, life, now, turns, nextTurnId, jobs, attempts, hpc, hloc,
                   hresp, pc, cur, spc, sloc, sent, claims>>
\* Reset: the two writes, return; the deferred Unlock runs
ResetReturn(g) ==
    /\ lk.pos[g] = "reset"
    /\ lk.writer = g
    /\ cb' = [cb EXCEPT !.failures = 0, !.isOpen = FALSE]
    /\ lk' = [lk EXCEPT !.writer = "none", !.pos[g] = "out"]
    /\ UNCHANGED <<kb, lost, hreq, notified, usage, cbRet, life, now, turns, nextTurnId, jobs, attempts, hpc, hloc,
                   hresp, pc, cur, spc, sloc, sent, claims>>

\* ------------------------------------------------------------------------
\* Worker: worker.AIWorker
\* ------------------------------------------------------------------------
\* job, attempt: the rows the claimer works on; Attempts: job.Attempts of its
\* struct; window: maxMessages of the last context built; calls: model calls
\* invoked in this claim; errMsg, cause: the failure being written; start:
\* the local start; latency: time.Since(start) taken after the call that
\* succeeded
IdleCur == [job |-> 0, att |-> 0, Attempts |-> 0, window |-> 0, calls |-> 0,
            errMsg |-> NoMsg, cause |-> "none", start |-> 0, latency |-> 0]

\* response, inTok, outTok of the call that succeeded and the latency taken
\* after it; the input tokens are those of the context the call was given
Reply(c) == [response |-> "reply", input_tokens |-> cur[c].window, output_tokens |-> 1,
             latency_ms |-> cur[c].latency]

\* the arguments of a call of logUsage
UsageEntry(status, reply) ==
    [status |-> status, input_tokens |-> reply.input_tokens,
     output_tokens |-> reply.output_tokens, latency_ms |-> reply.latency_ms]

\* rows a claim transaction holds locked (SELECT ... FOR UPDATE, not yet committed)
Locked == { cur[c].job : c \in {d \in Claimers : pc[d] = "claimUpdate"} }

\* Mutant: the WHERE clause without the next_run_at condition.
EligibleNoDelay(j) == jobs[j].status = "pending"

\* Mutant: the WHERE clause also takes rows in processing.
EligibleOrProcessing(j) ==
    /\ jobs[j].status \in {"pending", "processing"}
    /\ (jobs[j].next_run_at = NULL \/ jobs[j].next_run_at <= now)

\* WHERE status = 'pending' AND (next_run_at IS NULL OR next_run_at <= NOW())
Eligible(j) ==
    /\ jobs[j].status = "pending"
    /\ (jobs[j].next_run_at = NULL \/ jobs[j].next_run_at <= now)

\* Mutant: a plain SELECT, which takes no row lock and skips none.
SelectableNoLock == { j \in 1..Len(jobs) : Eligible(j) }

\* FOR UPDATE SKIP LOCKED: rows locked by another transaction are passed over
Selectable == { j \in 1..Len(jobs) : Eligible(j) /\ j \notin Locked }

\* Mutant: ORDER BY priority ASC, id DESC.
FirstJobNewestId(S) ==
    CHOOSE j \in S : \A k \in S :
        \/ jobs[j].priority < jobs[k].priority
        \/ (jobs[j].priority = jobs[k].priority /\ j >= k)

\* ORDER BY priority ASC, id ASC  LIMIT 1
FirstJob(S) ==
    CHOOSE j \in S : \A k \in S :
        \/ jobs[j].priority < jobs[k].priority
        \/ (jobs[j].priority = jobs[k].priority /\ j <= k)

\* Mutant: only a notification starts the claim loop; the ticker does not.
ClaimSelectOnNotify(c) ==
    /\ c = "listener"
    /\ pc[c] = "idle"
    /\ Selectable # {}
    /\ LET j == FirstJob(Selectable) IN
          cur' = [cur EXCEPT ![c] = [IdleCur EXCEPT !.job = j, !.Attempts = jobs[j].attempts]]
    /\ pc' = [pc EXCEPT ![c] = "claimUpdate"]
    /\ lost' = [lost EXCEPT ![c] = FALSE]
    /\ UNCHANGED <<kb, lk, hreq, notified, usage, cbRet, life, now, turns, nextTurnId, jobs, attempts, hpc, hloc, hresp, cb,
                   spc, sloc, sent, claims>>

\* processJobs: tx.Raw(SELECT ... FOR UPDATE SKIP LOCKED LIMIT 1).Scan(&job).
\* When no row is returned the loop rolls back and returns (no step).
ClaimSelect(c) ==
    /\ pc[c] = "idle"
    /\ Selectable # {}
    /\ LET j == FirstJob(Selectable) IN
          cur' = [cur EXCEPT ![c] = [IdleCur EXCEPT !.job = j, !.Attempts = jobs[j].attempts]]
    /\ pc' = [pc EXCEPT ![c] = "claimUpdate"]
    /\ lost' = [lost EXCEPT ![c] = FALSE]
    /\ UNCHANGED <<kb, lk, hreq, notified, usage, cbRet, life, now, turns, nextTurnId, jobs, attempts, hpc, hloc, hresp, cb,
                   spc, sloc, sent, claims>>

\* Mutant: the update leaves job.Attempts of the struct at the value read.
ClaimUpdateStale(c) ==
    /\ pc[c] = "claimUpdate"
    /\ LET j == cur[c].job IN
          /\ jobs' = [jobs EXCEPT ![j].status = "processing",
                                  ![j].attempts = cur[c].Attempts + 1,
                                  ![j].updated_at = now]
          /\ claims' = [claims EXCEPT ![j] = @ + 1]
    /\ pc' = [pc EXCEPT ![c] = "createAttempt"]
    /\ UNCHANGED <<kb, lk, lost, hreq, notified, usage, cbRet, life, now, turns, nextTurnId, attempts, hpc, hloc, hresp, cur, cb,
                   spc, sloc, sent>>

\* Mutant: the claim writes status and updated_at but not attempts.
ClaimUpdateKeepsAttempts(c) ==
    /\ pc[c] = "claimUpdate"
    /\ LET j == cur[c].job IN
          /\ jobs' = [jobs EXCEPT ![j].status = "processing",
                                  ![j].updated_at = now]
          /\ claims' = [claims EXCEPT ![j] = @ + 1]
    /\ pc' = [pc EXCEPT ![c] = "createAttempt"]
    /\ UNCHANGED <<kb, lk, lost, hreq, notified, usage, cbRet, life, now, turns, nextTurnId, attempts, hpc, hloc, hresp, cur, cb,
                   spc, sloc, sent>>

\* processJobs: tx.Model(&job).Updates(status, attempts+1); tx.Commit().
\* gorm assigns the updated columns to the job struct as well.
ClaimUpdate(c) ==
    /\ pc[c] = "claimUpdate"
    /\ LET j == cur[c].job IN
          /\ jobs' = [jobs EXCEPT ![j].status = "processing",
                                  ![j].attempts = cur[c].Attempts + 1,
                                  ![j].updated_at = now]
          /\ claims' = [claims EXCEPT ![j] = @ + 1]
    /\ cur' = [cur EXCEPT ![c].Attempts = @ + 1]
    /\ pc' = [pc EXCEPT ![c] = "createAttempt"]
    /\ UNCHANGED <<kb, lk, lost, hreq, notified, usage, cbRet, life, now, turns, nextTurnId, attempts, hpc, hloc, hresp, cb,
                   spc, sloc, sent>>

\* processJob: w.db.Create(&attempt)
CreateAttempt(c) ==
    /\ pc[c] = "createAttempt"
    /\ attempts' = [attempts EXCEPT ![cur[c].job] =
                        Append(@, [status |-> "processing", ended |-> FALSE])]
    /\ cur' = [cur EXCEPT ![c].att = Len(attempts[cur[c].job]) + 1, ![c].start = now]
    /\ pc' = [pc EXCEPT ![c] = "fetch"]
    /\ UNCHANGED <<kb, lk, lost, hreq, notified, usage, cbRet, life, now, turns, nextTurnId, jobs, hpc, hloc, hresp, cb,
                   spc, sloc, sent, claims>>

\* a call of w.failJob(job, attempt, msg): the claimer's next position and
\* locals; invoked is 1 when the step also ran a model call
ToFailJob(c, msg, cause, invoked) ==
    /\ pc' = [pc EXCEPT ![c] = "failAttempt"]
    /\ cur' = [cur EXCEPT ![c].errMsg = msg, ![c].cause = cause, ![c].calls = @ + invoked]

\* a call of w.permanentFailJob(job, attempt, msg)
ToPermanentFailJob(c, msg, cause, invoked) ==
    /\ pc' = [pc EXCEPT ![c] = "permAttempt"]
    /\ cur' = [cur EXCEPT ![c].errMsg = msg, ![c].cause = cause, ![c].calls = @ + invoked]

\* services.MarkMessagesAsReadInDB over the rows GetUnreadIncomingMessages
\* returns: the peer's turns that are not read
MarkRead(rows) ==
    { IF r.fromMe THEN r ELSE [r EXCEPT !.isRead = TRUE] : r \in rows }

\* Mutant: a failure to mark the turns read fails the attempt.
FetchChatMsgFailsOnMarkRead(c, outcomes) ==
    /\ pc[c] = "fetch"
    /\ IF TurnExists(jobs[cur[c].job].mid)
       THEN \E markOk \in outcomes :
               /\ IF markOk
                  THEN /\ pc' = [pc EXCEPT ![c] = "build"]
                       /\ UNCHANGED cur
                  ELSE ToFailJob(c, <<"Failed to mark messages as read">>, "MarkRead", 0)
               /\ turns' = IF markOk THEN MarkRead(turns) ELSE turns
               /\ lost' = [lost EXCEPT ![c] = @ \/ ~markOk]
       ELSE /\ ToFailJob(c, <<"Failed to fetch chat message">>, "ContextMissing", 0)
            /\ UNCHANGED <<turns, lost>>
    /\ UNCHANGED <<kb, lk, hreq, notified, usage, cbRet, life, now, nextTurnId, jobs, attempts, hpc, hloc, hresp, cb,
                   spc, sloc, sent, claims>>

\* processJob: load the inbound turn of the job, then start the goroutine
\* that marks the peer's unread turns read (taken to run at once); its
\* errors are logged.  outcomes: whether the goroutine may fail
FetchChatMsgWith(c, outcomes) ==
    /\ pc[c] = "fetch"
    /\ IF TurnExists(jobs[cur[c].job].mid)
       THEN /\ pc' = [pc EXCEPT ![c] = "build"]
            /\ UNCHANGED cur
            /\ \E markOk \in outcomes :
                  /\ turns' = IF markOk THEN MarkRead(turns) ELSE turns
                  /\ lost' = [lost EXCEPT ![c] = @ \/ ~markOk]
       ELSE /\ ToFailJob(c, <<"Failed to fetch chat message">>, "ContextMissing", 0)
            /\ UNCHANGED <<turns, lost>>
    /\ UNCHANGED <<kb, lk, hreq, notified, usage, cbRet, life, now, nextTurnId, jobs, attempts, hpc, hloc, hresp, cb,
                   spc, sloc, sent, claims>>

FetchChatMsg(c) == FetchChatMsgWith(c, {TRUE})

\* services.BuildContextWithLimit fails when the provider fetch fails or the
\* current message is not stored
BuildFails(c, providerOk) == ~providerOk \/ ~TurnExists(jobs[cur[c].job].mid)
BuildCause(providerOk) == IF providerOk THEN "ContextMissing" ELSE "Persistence"

\* processJob: BuildContextWithLimit(..., maxMessages = 10)
BuildContext(c) ==
    /\ pc[c] = "build"
    /\ \E providerOk \in BOOLEAN :
          IF BuildFails(c, providerOk)
          THEN ToFailJob(c, <<"Context build failed">>, BuildCause(providerOk), 0)
          ELSE /\ pc' = [pc EXCEPT ![c] = "call"]
               /\ cur' = [cur EXCEPT ![c].window = FirstWindow]
    /\ UNCHANGED <<kb, lk, lost, hreq, notified, usage, cbRet, life, now, turns, nextTurnId, jobs, attempts, hpc, hloc, hresp, cb,
                   spc, sloc, sent, claims>>

\* The kind the specification's error table gives a parsed model error
\* (recorded with the failure, read by the properties only).
ErrorKind(o) ==
    IF o.StatusCode = 401 THEN "Auth"
    ELSE IF o.StatusCode = 402 THEN "Payment"
    ELSE IF o.StatusCode = 403 THEN "Moderation"
    ELSE IF IsContextLengthError(o) THEN "ContextLength"
    ELSE IF o.StatusCode \in {408, 429, 502, 503} THEN "Retryable"
    ELSE "Other"

\* Mutant: the window test is currentMaxMessages >= 5.
HandleLLMErrorNarrowsAgain(c, e, cause, invoked) ==
    LET orErr == ParseSDKError(e) IN
    IF IsContextLengthError(orErr) /\ cur[c].window >= SmallWindow
    THEN /\ pc' = [pc EXCEPT ![c] = "retryBuild"]
         /\ cur' = [cur EXCEPT ![c].cause = cause, ![c].calls = @ + invoked,
                               ![c].start = now]
    ELSE IF IsAuthError(orErr) \/ IsPaymentError(orErr) \/ IsModerationError(orErr)
    THEN ToPermanentFailJob(c, <<"", orErr.StatusCode>>, cause, invoked)
    ELSE IF ~IsRetryable(orErr)
    THEN ToPermanentFailJob(c, <<"Non-retryable error", orErr.StatusCode>>, cause, invoked)
    ELSE ToFailJob(c, <<"LLM call failed", orErr.StatusCode>>, cause, invoked)

\* handleLLMError(job, attempt, err, currentMaxMessages), up to the call of
\* permanentFailJob / failJob or the start of the retry with 5 messages
HandleLLMError(c, e, cause, invoked) ==
    LET orErr == ParseSDKError(e) IN
    IF IsContextLengthError(orErr) /\ cur[c].window > SmallWindow
    THEN /\ pc' = [pc EXCEPT ![c] = "retryBuild"]
         /\ cur' = [cur EXCEPT ![c].cause = cause, ![c].calls = @ + invoked,
                               ![c].start = now]
    ELSE IF IsAuthError(orErr) \/ IsPaymentError(orErr) \/ IsModerationError(orErr)
    THEN ToPermanentFailJob(c, <<"", orErr.StatusCode>>, cause, invoked)
    ELSE IF ~IsRetryable(orErr)
    THEN ToPermanentFailJob(c, <<"Non-retryable error", orErr.StatusCode>>, cause, invoked)
    ELSE ToFailJob(c, <<"LLM call failed", orErr.StatusCode>>, cause, invoked)

\* openRouterCB.Call(func() error { ... services.AskLLM(...) }) and what the
\* caller does with its result; onOk is the caller's position after success
CallThroughBreaker(c, onOk) ==
    IF CBRejects
    THEN /\ HandleLLMError(c, ErrBreakerOpen, "BreakerOpen", 0)
         /\ UNCHANGED cb
    ELSE \E outcome \in {NoError} \cup ModelErrors :
            /\ cb' = CBAfterCall(outcome)
            /\ IF IsOk(outcome)
               THEN /\ pc' = [pc EXCEPT ![c] = onOk]
                    /\ cur' = [cur EXCEPT ![c].calls = @ + 1,
                                          ![c].latency = now - cur[c].start]
               ELSE HandleLLMError(c, outcome, ErrorKind(ParseSDKError(outcome)), 1)

\* processJob: SetTypingState(composing), the model call with the context of
\* 10 messages, SetTypingState(stop); the errors of SetTypingState are logged.
\* outcomes: whether SetTypingState may fail
CallLLMWith(c, outcomes) ==
    /\ pc[c] = "call"
    /\ CallThroughBreaker(c, "send")
    /\ \E composingOk \in outcomes, stopOk \in outcomes :
          lost' = [lost EXCEPT ![c] = @ \/ ~composingOk \/ ~stopOk]
    /\ UNCHANGED <<kb, lk, hreq, notified, usage, cbRet, life, now, turns, nextTurnId, jobs, attempts, hpc, hloc, hresp,
                   spc, sloc, sent, claims>>

CallLLM(c) == CallLLMWith(c, {TRUE})

\* handleLLMError: BuildContextWithLimit(..., 5)
RetryBuildContext(c) ==
    /\ pc[c] = "retryBuild"
    /\ \E providerOk \in BOOLEAN :
          IF BuildFails(c, providerOk)
          THEN ToPermanentFailJob(c, <<"Context build failed even with 5 messages">>,
                                  BuildCause(providerOk), 0)
          ELSE /\ pc' = [pc EXCEPT ![c] = "retryCall"]
               /\ cur' = [cur EXCEPT ![c].window = SmallWindow]
    /\ UNCHANGED <<kb, lk, lost, hreq, notified, usage, cbRet, life, now, turns, nextTurnId, jobs, attempts, hpc, hloc, hresp, cb,
                   spc, sloc, sent, claims>>

\* handleLLMError: the model call with the context of 5 messages; an error
\* goes to handleLLMError(job, attempt, cbErr, 5)
RetryCallLLM(c) ==
    /\ pc[c] = "retryCall"
    /\ CallThroughBreaker(c, "retryFetch")
    /\ UNCHANGED <<kb, lk, lost, hreq, notified, usage, cbRet, life, now, turns, nextTurnId, jobs, attempts, hpc, hloc, hresp,
                   spc, sloc, sent, claims>>

\* handleLLMError: load the inbound turn again before sending
RetryFetchChatMsg(c) ==
    /\ pc[c] = "retryFetch"
    /\ IF TurnExists(jobs[cur[c].job].mid)
       THEN /\ pc' = [pc EXCEPT ![c] = "send"]
            /\ UNCHANGED cur
       ELSE ToFailJob(c, <<"Failed to fetch chat message">>, "ContextMissing", 0)
    /\ UNCHANGED <<kb, lk, lost, hreq, notified, usage, cbRet, life, now, turns, nextTurnId, jobs, attempts, hpc, hloc, hresp, cb,
                   spc, sloc, sent, claims>>

\* Mutant: a confirmed send is handled like a failed one.
SendReplyThenFail(c) ==
    /\ pc[c] = "send"
    /\ \E confirmed \in BOOLEAN :
          /\ sent' = [sent EXCEPT ![cur[c].job] = IF confirmed THEN @ + 1 ELSE @]
          /\ ToFailJob(c, <<"Failed to send WA message">>, "SendFailed", 0)
    /\ UNCHANGED <<kb, lk, lost, hreq, notified, usage, cbRet, life, now, turns, nextTurnId, jobs, attempts, hpc, hloc, hresp, cb,
                   spc, sloc, claims>>

\* Mutant: a failed send is handed to permanentFailJob.
SendReplyFailsPermanently(c) ==
    /\ pc[c] = "send"
    /\ \E confirmed \in BOOLEAN :
          IF confirmed
          THEN /\ sent' = [sent EXCEPT ![cur[c].job] = @ + 1]
               /\ pc' = [pc EXCEPT ![c] = "writeDone"]
               /\ spc' = [spc EXCEPT ![c] = IF @ = "idle" THEN "insert" ELSE @]
               /\ UNCHANGED cur
          ELSE /\ ToPermanentFailJob(c, <<"Failed to send WA message">>, "SendFailed", 0)
               /\ UNCHANGED <<sent, spc>>
    /\ UNCHANGED <<kb, lk, lost, hreq, notified, usage, cbRet, life, now, turns, nextTurnId, jobs, attempts, hpc, hloc, hresp, cb,
                   sloc, claims>>

\* services.SendWAText, then on success `go func() { SaveOutgoingMessageToAIChat
\* ... }()` and w.db.Create(&sendLog).  The goroutine is the saver of this
\* claimer; while an earlier one is still running the new save is one that fails.
SendReply(c) ==
    /\ pc[c] = "send"
    /\ \E confirmed \in BOOLEAN :
          IF confirmed
          THEN /\ sent' = [sent EXCEPT ![cur[c].job] = @ + 1]
               /\ pc' = [pc EXCEPT ![c] = "writeDone"]
               /\ spc' = [spc EXCEPT ![c] = IF @ = "idle" THEN "insert" ELSE @]
               /\ UNCHANGED cur
          ELSE /\ ToFailJob(c, <<"Failed to send WA message">>, "SendFailed", 0)
               /\ UNCHANGED <<sent, spc>>
    /\ UNCHANGED <<kb, lk, lost, hreq, notified, usage, cbRet, life, now, turns, nextTurnId, jobs, attempts, hpc, hloc, hresp, cb,
                   sloc, claims>>

\* Mutant: the update to done leaves output_json out.
WriteDoneWithoutOutput(c) ==
    /\ pc[c] = "writeDone"
    /\ jobs' = [jobs EXCEPT ![cur[c].job].status = "done", ![cur[c].job].updated_at = now]
    /\ pc' = [pc EXCEPT ![c] = "attemptOk"]
    /\ UNCHANGED <<kb, lk, lost, hreq, notified, usage, cbRet, life, now, turns, nextTurnId, attempts, hpc, hloc, hresp, cur, cb,
                   spc, sloc, sent, claims>>

\* w.db.Model(job).Updates(status = done, output_json)
WriteDone(c) ==
    /\ pc[c] = "writeDone"
    /\ jobs' = [jobs EXCEPT ![cur[c].job].status = "done", ![cur[c].job].output = Reply(c),
                            ![cur[c].job].updated_at = now]
    /\ pc' = [pc EXCEPT ![c] = "attemptOk"]
    /\ UNCHANGED <<kb, lk, lost, hreq, notified, usage, cbRet, life, now, turns, nextTurnId, attempts, hpc, hloc, hresp, cur, cb,
                   spc, sloc, sent, claims>>

\* w.db.Model(&attempt).Updates(status = ok, ended_at); processJob returns
AttemptOk(c) ==
    /\ pc[c] = "attemptOk"
    /\ attempts' = [attempts EXCEPT ![cur[c].job][cur[c].att] = [status |-> "ok", ended |-> TRUE]]
    /\ usage' = [usage EXCEPT ![cur[c].job] = Append(@, UsageEntry("ok", Reply(c)))]
    /\ pc' = [pc EXCEPT ![c] = "idle"]
    /\ cur' = [cur EXCEPT ![c] = IdleCur]
    /\ UNCHANGED <<kb, lk, lost, hreq, notified, cbRet, life, now, turns, nextTurnId, jobs, hpc, hloc, hresp, cb,
                   spc, sloc, sent, claims>>

\* Mutant: failJob does not finalise the attempt row.
FailJobAttemptSkipped(c) ==
    /\ pc[c] = "failAttempt"
    /\ pc' = [pc EXCEPT ![c] = "failRow"]
    /\ UNCHANGED <<kb, lk, lost, hreq, notified, usage, cbRet, life, now, turns, nextTurnId, jobs, attempts, hpc, hloc, hresp, cur, cb,
                   spc, sloc, sent, claims>>

\* failJob: w.db.Model(attempt).Updates(status = error, error_msg, ended_at)
FailJobAttempt(c) ==
    /\ pc[c] = "failAttempt"
    /\ attempts' = [attempts EXCEPT ![cur[c].job][cur[c].att] = [status |-> "error", ended |-> TRUE]]
    /\ pc' = [pc EXCEPT ![c] = "failRow"]
    /\ UNCHANGED <<kb, lk, lost, hreq, notified, usage, cbRet, life, now, turns, nextTurnId, jobs, hpc, hloc, hresp, cur, cb,
                   spc, sloc, sent, claims>>

\* Mutant: the retry test is job.Attempts <= 3.
FailJobUpdatesOffByOne(c) ==
    IF cur[c].Attempts <= MaxAttempts
    THEN [jobs[cur[c].job] EXCEPT !.status = "pending", !.next_run_at = now + RetryDelay,
                                  !.updated_at = now,
                                  !.error_msg = cur[c].errMsg]
    ELSE [jobs[cur[c].job] EXCEPT !.status = "failed", !.error_msg = cur[c].errMsg,
                                  !.updated_at = now]

\* Mutant: failJob returns without updating the row of the job.
FailJobUpdatesNothing(c) == jobs[cur[c].job]

\* failJob: if job.Attempts < 3 the job is pending again, else failed
FailJobUpdates(c) ==
    IF cur[c].Attempts < MaxAttempts
    THEN [jobs[cur[c].job] EXCEPT !.status = "pending", !.next_run_at = now + RetryDelay,
                                  !.updated_at = now,
                                  !.error_msg = cur[c].errMsg]
    ELSE [jobs[cur[c].job] EXCEPT !.status = "failed",
                                  !.error_msg = cur[c].errMsg, !.updated_at = now]

\* Mutant: failJob logs usage on every call, also when it re-queues.
FailJobUsageAlways(c, log) == Append(log, UsageEntry("error", NoOutput))

\* failJob: `go w.logUsage(..., 0, 0, 0, "error", errMsg)` in the branch that
\* fails the job, none in the branch that re-queues it
FailJobUsage(c, log) ==
    IF cur[c].Attempts < MaxAttempts THEN log ELSE Append(log, UsageEntry("error", NoOutput))

\* failJob: w.db.Model(job).Updates(updates); failJob and processJob return
FailJobRow(c) ==
    /\ pc[c] = "failRow"
    /\ jobs' = [jobs EXCEPT ![cur[c].job] = FailJobUpdates(c)]
    /\ usage' = [usage EXCEPT ![cur[c].job] = FailJobUsage(c, @)]
    /\ pc' = [pc EXCEPT ![c] = "idle"]
    /\ cur' = [cur EXCEPT ![c] = IdleCur]
    /\ UNCHANGED <<kb, lk, lost, hreq, notified, cbRet, life, now, turns, nextTurnId, attempts, hpc, hloc, hresp, cb,
                   spc, sloc, sent, claims>>

\* Mutant: permanentFailJob does not finalise the attempt row.
PermanentFailAttemptSkipped(c) ==
    /\ pc[c] = "permAttempt"
    /\ pc' = [pc EXCEPT ![c] = "permRow"]
    /\ UNCHANGED <<kb, lk, lost, hreq, notified, usage, cbRet, life, now, turns, nextTurnId, jobs, attempts, hpc, hloc, hresp,
                   cur, cb, spc, sloc, sent, claims>>

\* permanentFailJob: w.db.Model(attempt).Updates(status = error, ...)
PermanentFailAttempt(c) ==
    /\ pc[c] = "permAttempt"
    /\ attempts' = [attempts EXCEPT ![cur[c].job][cur[c].att] = [status |-> "error", ended |-> TRUE]]
    /\ pc' = [pc EXCEPT ![c] = "permRow"]
    /\ UNCHANGED <<kb, lk, lost, hreq, notified, usage, cbRet, life, now, turns, nextTurnId, jobs, hpc, hloc, hresp, cur, cb,
                   spc, sloc, sent, claims>>

\* permanentFailJob: w.db.Model(job).Updates(status = failed, error_msg)
PermanentFailRow(c) ==
    /\ pc[c] = "permRow"
    /\ jobs' = [jobs EXCEPT ![cur[c].job].status = "failed",
                            ![cur[c].job].error_msg = cur[c].errMsg,
                            ![cur[c].job].updated_at = now]
    /\ usage' = [usage EXCEPT ![cur[c].job] = Append(@, UsageEntry("error", NoOutput))]
    /\ pc' = [pc EXCEPT ![c] = "idle"]
    /\ cur' = [cur EXCEPT ![c] = IdleCur]
    /\ UNCHANGED <<kb, lk, lost, hreq, notified, cbRet, life, now, turns, nextTurnId, attempts, hpc, hloc, hresp, cb,
                   spc, sloc, sent, claims>>

\* ------------------------------------------------------------------------
\* The goroutine that stores the reply: services.SaveOutgoingMessageToAIChat
\* ------------------------------------------------------------------------
\* db.Create(&msg) with a generated message id and timestamp time.Now()
SaveOutgoingInsert(c) ==
    /\ spc[c] = "insert"
    /\ turns' = turns \cup {[id |-> nextTurnId, mid |-> 0, ts |-> now,
                             fromMe |-> TRUE, isRead |-> TRUE]}
    /\ nextTurnId' = nextTurnId + 1
    /\ spc' = [spc EXCEPT ![c] = "count"]
    /\ UNCHANGED <<kb, lk, lost, hreq, notified, usage, cbRet, life, now, jobs, attempts, hpc, hloc, hresp, pc, cur, cb,
                   sloc, sent, claims>>

\* db.Create(&msg) of the reply fails: the goroutine logs the error
SaveOutgoingFails(c) ==
    /\ spc[c] = "insert"
    /\ spc' = [spc EXCEPT ![c] = "idle"]
    /\ UNCHANGED <<kb, lk, lost, hreq, notified, usage, cbRet, life, now, turns, nextTurnId, jobs, attempts, hpc,
                   hloc, hresp, pc, cur, cb, sloc, sent, claims>>

SaveOutgoingCleanupCount(c) ==
    /\ spc[c] = "count"
    /\ LET r == CleanupCountStep(sloc[c], "idle") IN
          /\ spc' = [spc EXCEPT ![c] = r.pc]
          /\ sloc' = [sloc EXCEPT ![c] = r.loc]
    /\ UNCHANGED <<kb, lk, lost, hreq, notified, usage, cbRet, life, now, turns, nextTurnId, jobs, attempts, hpc, hloc, hresp, pc, cur, cb,
                   sent, claims>>

SaveOutgoingCleanupPluck(c) ==
    /\ spc[c] = "pluck"
    /\ \E r \in CleanupPluckSteps(sloc[c], "idle") :
          /\ spc' = [spc EXCEPT ![c] = r.pc]
          /\ sloc' = [sloc EXCEPT ![c] = r.loc]
    /\ UNCHANGED <<kb, lk, lost, hreq, notified, usage, cbRet, life, now, turns, nextTurnId, jobs, attempts, hpc, hloc, hresp, pc, cur, cb,
                   sent, claims>>

SaveOutgoingCleanupDelete(c) ==
    /\ spc[c] = "delete"
    /\ turns' = CleanupDeleteRows(sloc[c])
    /\ spc' = [spc EXCEPT ![c] = "idle"]
    /\ sloc' = [sloc EXCEPT ![c] = IdleLoc]
    /\ UNCHANGED <<kb, lk, lost, hreq, notified, usage, cbRet, life, now, nextTurnId, jobs, attempts, hpc, hloc, hresp, pc, cur, cb,
                   sent, claims>>

\* ------------------------------------------------------------------------
\* services.filterRelevantDocuments
\* ------------------------------------------------------------------------
PricingWeight == 10
OtherWeight == 5
PricingBoost == 15
PricingMinimum == 5
MaxDocs == 3

\* One keyword of the category "pricing" and one of another category stand
\* for the table of keywords.
PricingWords == {"harga"}
Keywords == PricingWords \cup {"web"}
DocKinds == {"pricing", "faq"}

\* A document is given by its kind and the keywords its lower-cased title,
\* content and kind contain; a query by the keywords it contains.
DocShapes == [kind : DocKinds, words : SUBSET Keywords]
Queries == SUBSET Keywords

RECURSIVE KeywordScore(_)
KeywordScore(ks) ==
    IF ks = {} THEN 0
    ELSE LET k == CHOOSE x \in ks : TRUE
         IN  (IF k \in PricingWords THEN PricingWeight ELSE OtherWeight)
               + KeywordScore(ks \ {k})

\* the score of one document for the query
DocScore(doc, query) ==
    LET matched == KeywordScore(query \cap doc.words)
        aboutPrice == doc.kind = "pricing" /\ query \cap PricingWords # {}
        boosted == IF aboutPrice THEN matched + PricingBoost ELSE matched
    IN  IF aboutPrice /\ boosted = 0 THEN PricingMinimum ELSE boosted

\* scored: the documents in input order, each with its position and score
Scored(docs, query) ==
    [i \in 1..Len(docs) |-> [doc |-> docs[i], pos |-> i, score |-> DocScore(docs[i], query)]]

SwapAt(s, i, j) == [s EXCEPT ![i] = s[j], ![j] = s[i]]

\* for j := i + 1; j < len(scored); j++: exchange when scored[j] is higher
RECURSIVE SortInner(_, _, _)
SortInner(s, i, j) ==
    IF j > Len(s) THEN s
    ELSE SortInner(IF s[j].score > s[i].score THEN SwapAt(s, i, j) ELSE s, i, j + 1)

\* for i := 0; i < len(scored); i++
RECURSIVE SortOuter(_, _)
SortOuter(s, i) ==
    IF i > Len(s) THEN s
    ELSE SortOuter(SortInner(s, i, i + 1), i + 1)

\* the result, each document with the position it had in the input
filterRelevantDocuments(docs, query) ==
    IF Len(docs) = 0 THEN <<>> ELSE SortOuter(Scored(docs, query), 1)

DocInputs == UNION { [1..n -> DocShapes] : n \in 0..MaxDocs }

IdleKb == [docs |-> <<>>, query |-> {}, called |-> FALSE, result |-> <<>>]

FilterDocuments ==
    /\ ~kb.called
    /\ kb' = [kb EXCEPT !.called = TRUE,
                        !.result = filterRelevantDocuments(kb.docs, kb.query)]
    /\ UNCHANGED <<lk, lost, hreq, notified, usage, cbRet, life, now, turns, nextTurnId, jobs, attempts, hpc, hloc,
                   hresp, pc, cur, cb, spc, sloc, sent, claims>>

\* ------------------------------------------------------------------------
\* Shutdown: func main and AIWorker.Stop
\* ------------------------------------------------------------------------
\* inflight: for each job in processing when Stop is called, the number of
\* its claim
IdleLife == [phase |-> "serving", inflight |-> <<>>]

Running == life.phase # "returned"

\* main: <-quit; aiWorker.Stop(), which closes w.shutdown and returns
Stop ==
    /\ life.phase = "serving"
    /\ life' = [phase |-> "stopped",
                inflight |-> [j \in {k \in 1..Len(jobs) : jobs[k].status = "processing"}
                                |-> claims[j]]]
    /\ UNCHANGED <<kb, lk, lost, hreq, notified, usage, cbRet, now, turns, nextTurnId, jobs, attempts, hpc, hloc, hresp, pc,
                   cur, cb, spc, sloc, sent, claims>>

\* Start / listenForJobs: the select takes `case <-w.shutdown` once processJobs
\* has returned; the goroutine claims no more
ObserveShutdown(c) ==
    /\ life.phase = "stopped"
    /\ pc[c] = "idle"
    /\ pc' = [pc EXCEPT ![c] = "exited"]
    /\ UNCHANGED <<kb, lk, lost, hreq, notified, usage, cbRet, life, now, turns, nextTurnId, jobs, attempts, hpc, hloc, hresp,
                   cur, cb, spc, sloc, sent, claims>>

\* Mutant: Start returns from the shutdown case without w.wg.Wait().
StartReturnsWithoutWait ==
    /\ pc["sweeper"] = "exited"
    /\ pc' = [pc EXCEPT !["sweeper"] = "returned"]
    /\ UNCHANGED <<kb, lk, lost, hreq, notified, usage, cbRet, life, now, turns, nextTurnId, jobs, attempts, hpc, hloc, hresp,
                   cur, cb, spc, sloc, sent, claims>>

\* Start: after `case <-w.shutdown`, w.wg.Wait() returns once listenForJobs
\* has run its deferred w.wg.Done(); Start returns
StartReturns ==
    /\ pc["sweeper"] = "exited"
    /\ pc["listener"] = "exited"
    /\ pc' = [pc EXCEPT !["sweeper"] = "returned"]
    /\ UNCHANGED <<kb, lk, lost, hreq, notified, usage, cbRet, life, now, turns, nextTurnId, jobs, attempts, hpc, hloc, hresp,
                   cur, cb, spc, sloc, sent, claims>>

\* main: srv.Shutdown(ctx) and return; nothing waits for the goroutine that
\* runs aiWorker.Start() or for the listener
MainReturn ==
    /\ life.phase = "stopped"
    /\ life' = [life EXCEPT !.phase = "returned"]
    /\ UNCHANGED <<kb, lk, lost, hreq, notified, usage, cbRet, now, turns, nextTurnId, jobs, attempts, hpc, hloc, hresp, pc,
                   cur, cb, spc, sloc, sent, claims>>

\* The process is killed and started again (func main from the top): the
\* goroutines and their locals are gone, an open claim transaction is rolled
\* back by the database, the breaker is new, the tables are as they were.
\* life records the restart and the jobs that were in processing.
Crash ==
    /\ life.phase = "serving"
    /\ life' = [phase |-> "restarted",
                inflight |-> [j \in {k \in 1..Len(jobs) : jobs[k].status = "processing"}
                                |-> claims[j]]]
    /\ pc' = [c \in Claimers |-> "idle"]
    /\ cur' = [c \in Claimers |-> IdleCur]
    /\ spc' = [c \in Claimers |-> "idle"]
    /\ sloc' = [c \in Claimers |-> IdleLoc]
    /\ hpc' = [h \in Handlers |-> "idle"]
    /\ hloc' = [h \in Handlers |-> IdleLoc]
    /\ lost' = [c \in Claimers |-> FALSE]
    /\ cb' = NewCircuitBreaker
    /\ UNCHANGED <<kb, lk, hreq, hresp, notified, usage, cbRet, now, turns, nextTurnId, jobs, attempts, sent, claims>>

\* ------------------------------------------------------------------------
\* Time
\* ------------------------------------------------------------------------
Tick ==
    /\ now + TickStep <= MaxTime
    /\ now' = now + TickStep
    /\ UNCHANGED <<kb, lk, lost, hreq, notified, usage, cbRet, life, turns, nextTurnId, jobs, attempts, hpc, hloc, hresp, pc, cur, cb,
                   spc, sloc, sent, claims>>

\* ------------------------------------------------------------------------
\* Specification
\* ------------------------------------------------------------------------
Boot ==
    /\ now = 0
    /\ \E n \in {0, MaxMessagesPerContact} :
          /\ turns = HistoryRows(n)
          /\ nextTurnId = n + 1
    /\ jobs = <<>>
    /\ attempts = <<>>
    /\ hpc = [h \in Handlers |-> "idle"]
    /\ hloc = [h \in Handlers |-> IdleLoc]
    /\ hresp = [h \in Handlers |-> "none"]
    /\ pc = [c \in Claimers |-> "idle"]
    /\ cur = [c \in Claimers |-> IdleCur]
    /\ cb = NewCircuitBreaker
    /\ spc = [c \in Claimers |-> "idle"]
    /\ sloc = [c \in Claimers |-> IdleLoc]
    /\ sent = <<>>
    /\ claims = <<>>
    /\ cbRet = IdleRet
    /\ life = IdleLife
    /\ hreq = [h \in Handlers |-> NoWebhook]
    /\ notified = <<>>
    /\ usage = <<>>
    /\ lost = [c \in Claimers |-> FALSE]

Init ==
    /\ Boot
    /\ kb = IdleKb
    /\ lk = IdleLock

Intake(hs, cap, ws) ==
    \E h \in hs :
        \/ \E w \in ws, m \in MsgIds, ts \in WebhookTimestamps : Receive(h, w, m, ts, cap)
        \/ IntakeCleanupCount(h)
        \/ IntakeCleanupPluck(h)
        \/ IntakeCleanupDelete(h)
        \/ Enqueue(h)

Worker(running) ==
    \E c \in running :
        \/ ClaimSelect(c)
        \/ ClaimUpdate(c)
        \/ CreateAttempt(c)
        \/ FetchChatMsg(c)
        \/ BuildContext(c)
        \/ CallLLM(c)
        \/ RetryBuildContext(c)
        \/ RetryCallLLM(c)
        \/ RetryFetchChatMsg(c)
        \/ SendReply(c)
        \/ WriteDone(c)
        \/ AttemptOk(c)
        \/ FailJobAttempt(c)
        \/ FailJobRow(c)
        \/ PermanentFailAttempt(c)
        \/ PermanentFailRow(c)

\* outcomes: the results the best-effort steps of processJob may have
WorkerWith(running, outcomes) ==
    \E c \in running :
        \/ ClaimSelect(c)
        \/ ClaimUpdate(c)
        \/ CreateAttempt(c)
        \/ FetchChatMsgWith(c, outcomes)
        \/ BuildContext(c)
        \/ CallLLMWith(c, outcomes)
        \/ RetryBuildContext(c)
        \/ RetryCallLLM(c)
        \/ RetryFetchChatMsg(c)
        \/ SendReply(c)
        \/ WriteDone(c)
        \/ AttemptOk(c)
        \/ FailJobAttempt(c)
        \/ FailJobRow(c)
        \/ PermanentFailAttempt(c)
        \/ PermanentFailRow(c)

SaveOutgoing ==
    \E c \in Claimers :
        \/ SaveOutgoingInsert(c)
        \/ SaveOutgoingCleanupCount(c)
        \/ SaveOutgoingCleanupPluck(c)
        \/ SaveOutgoingCleanupDelete(c)

\* The worker process with its listener and its sweeper, the goroutines that
\* store replies, and webhooks that arrive one after the other.
Next == Intake({1}, MaxJobs, {Good}) \/ Worker(Claimers) \/ SaveOutgoing \/ Tick

Spec == Init /\ [][Next]_vars

\* The runs in which no notification reaches the listener and the goroutines
\* that store replies are not scheduled: the sweeper works through the queue
\* alone.
InitSweeper == Init

NextSweeper == Intake({1}, SweeperJobs, {Good}) \/ Worker({"sweeper"}) \/ Tick

SpecSweeper == InitSweeper /\ [][NextSweeper]_vars

\* The worker process when each best-effort step may fail: marking read,
\* the typing indicator, and the storing of the reply.
NextEffort ==
    \/ Intake({1}, MaxJobs, {Good})
    \/ WorkerWith(Claimers, BOOLEAN)
    \/ SaveOutgoing
    \/ \E c \in Claimers : SaveOutgoingFails(c)
    \/ Tick

SpecEffort == Init /\ [][NextEffort]_vars

\* The process from start to the return of main: the goroutines run until
\* the process is gone.
NextShutdown ==
    \/ Running /\ Intake({1}, MaxJobs, {Good})
    \/ Running /\ Worker(Claimers)
    \/ Running /\ SaveOutgoing
    \/ Running /\ Tick
    \/ Stop
    \/ \E c \in Claimers : ObserveShutdown(c)
    \/ MainReturn

SpecShutdown == Init /\ [][NextShutdown]_vars

\* The running worker under fair scheduling: the sweeper's ticker fires
\* every 2 s and a goroutine inside processJobs goes on; whether a
\* notification ever wakes the listener is left open.
ListenerContinues == pc["listener"] # "idle" /\ Worker({"listener"})

SpecLive ==
    /\ Init /\ [][Next]_vars
    /\ WF_vars(Worker({"sweeper"}))
    /\ WF_vars(ListenerContinues)

\* The breaker alone, driven through its public operations.
NextBreaker == BreakerCall \/ BreakerIsOpen \/ BreakerReset \/ BreakerTick

SpecBreaker == Init /\ [][NextBreaker]_vars

\* Intake alone: webhooks handled concurrently, no worker running.
NextIntake == Intake(Handlers, IntakeJobs, {Good})

SpecIntake == Init /\ [][NextIntake]_vars

\* The listener and the sweeper claiming from a queue of two jobs at one
\* instant: no retry delay elapses and no reply is stored.
NextClaim == Intake({1}, SweeperJobs, {Good}) \/ Worker(Claimers)

SpecClaim == Init /\ [][NextClaim]_vars

\* One handler, every webhook of the model, and the database failing at any
\* statement of the handler.
IntakeFaults(h) ==
    \/ \E w \in Webhooks : Reject(h, w)
    \/ \E w \in Webhooks : ReceiveFails(h, w)
    \/ IntakeCleanupFails(h)
    \/ EnqueueFails(h)

NextGate == Intake({1}, GateJobs, Webhooks) \/ IntakeFaults(1)

SpecGate == Init /\ [][NextGate]_vars

\* The worker from Start to its return, in a process that stays alive after
\* Stop.  A goroutine inside processJobs goes on (the processing of a job
\* terminates), a select with the closed shutdown channel ready takes that
\* case at last, and wg.Wait() returns when the counter is zero.
NextStop ==
    \/ Intake({1}, MaxJobs, {Good})
    \/ Worker(Claimers)
    \/ Tick
    \/ Stop
    \/ \E c \in Claimers : ObserveShutdown(c)
    \/ StartReturns

InsideProcessJobs(c) == pc[c] \notin {"idle", "exited", "returned"} /\ Worker({c})

SpecStop ==
    /\ Init /\ [][NextStop]_vars
    /\ \A c \in Claimers : WF_vars(InsideProcessJobs(c))
    /\ \A c \in Claimers : WF_vars(ObserveShutdown(c))
    /\ WF_vars(StartReturns)

\* The breaker with its mutex: the listener and the sweeper inside Call, a
\* third goroutine inside IsOpen or Reset, and time.
NextLock ==
    \/ \E g \in Claimers : Invoke(g, "wantCall")
    \/ \E op \in {"wantIsOpen", "wantReset"} : Invoke("operator", op)
    \/ \E g \in Callers :
          \/ Lock(g)
          \/ CallCheck(g)
          \/ CallFnReturns(g)
          \/ CallReturn(g)
          \/ IsOpenRLock(g)
          \/ IsOpenReturn(g)
          \/ ResetReturn(g)
    \/ BreakerTick

SpecLock == Init /\ [][NextLock]_vars

\* The worker process killed at any moment and started again once; the
\* clock stands still, so a re-queued job is not yet due again.
NextCrash == Intake({1}, SweeperJobs, {Good}) \/ Worker(Claimers) \/ Crash

SpecCrash == Init /\ [][NextCrash]_vars

\* filterRelevantDocuments alone, called once on any knowledge base of up to
\* MaxDocs documents and any query.
InitFilter ==
    /\ Boot
    /\ lk = IdleLock
    /\ \E d \in DocInputs, q \in Queries : kb = [IdleKb EXCEPT !.docs = d, !.query = q]

NextFilter == FilterDocuments

SpecFilter == InitFilter /\ [][NextFilter]_vars

\* ------------------------------------------------------------------------
\* Properties
\* ------------------------------------------------------------------------
JobIds == 1..Len(jobs)

\* positions between the commit of the claim and the write of the outcome
OwningPcs == {"createAttempt", "fetch", "build", "call", "retryBuild", "retryCall",
              "retryFetch", "send", "writeDone", "failAttempt", "failRow",
              "permAttempt", "permRow"}
Owns(c) == pc[c] \in OwningPcs

\* the claimer c writes the outcome of a failed attempt in this step
WritesFailure(c) == pc[c] \in {"failRow", "permRow"} /\ pc'[c] = "idle"

\* C1: a job is never owned by two claimers at once: while a claimer is
\* between the commit of its claim and its write of done, failed or pending,
\* the job is processing and no other claimer has selected, claimed or is
\* processing the same job.
C1_SingleOwner ==
    \A c \in Claimers : Owns(c) =>
        /\ jobs[cur[c].job].status = "processing"
        /\ \A d \in Claimers \ {c} : pc[d] # "idle" => cur[d].job # cur[c].job

\* C1 witness: a claimer owns a job that was claimed before, while the other
\* claimer is looking for work.
C1_Witness ==
    \E c \in Claimers : /\ Owns(c)
                        /\ claims[cur[c].job] >= 2
                        /\ \E d \in Claimers \ {c} : pc[d] = "idle"

\* C2: in every reachable state there is at most one Job per message_id.
C2_OneJobPerMessage ==
    \A i \in JobIds, j \in JobIds : jobs[i].mid = jobs[j].mid => i = j

\* C3: for every job at most one reply send is confirmed; after a confirmed
\* send the job is never claimed again and its status only goes to done.
C3_AtMostOneConfirmedSend ==
    /\ [](\A j \in JobIds : sent[j] <= 1)
    /\ [][\A j \in JobIds : sent[j] >= 1 =>
              /\ claims'[j] = claims[j]
              /\ jobs'[j].status \in {jobs[j].status, "done"}]_vars

\* C3 witness: a job whose first send was not confirmed was sent again, and
\* that send was confirmed.
C3_Witness ==
    \E j \in JobIds : /\ jobs[j].status = "done"
                      /\ sent[j] = 1
                      /\ jobs[j].error_msg = <<"Failed to send WA message">>

\* C4: Job.status changes only along pending -> processing ->
\* {done, failed, pending}; done and failed are terminal; processing goes
\* back to pending only when attempts < 3.
C4_StatusStep(j) ==
    LET a == jobs[j].status
        b == jobs'[j].status
    IN  a # b =>
           \/ a = "pending" /\ b = "processing"
           \/ a = "processing" /\ b \in {"done", "failed"}
           \/ a = "processing" /\ b = "pending" /\ jobs[j].attempts < MaxAttempts

C4_StatusTransitions == [][\A j \in JobIds : C4_StatusStep(j)]_vars

\* C4 witness: a job has gone back to pending twice.
C4_Witness == \E j \in JobIds : jobs[j].status = "pending" /\ jobs[j].attempts = 2

\* C5: on a transient failure (failJob) the job is re-queued with
\* next_run_at = now + 30 s and the error message if its attempts counter is
\* below 3, and failed otherwise; no job is claimed more than 3 times and
\* attempts <= 3 always.
C5_FailJobStep(c) ==
    LET j == cur[c].job IN
    (pc[c] = "failRow" /\ pc'[c] = "idle") =>
        IF jobs[j].attempts < MaxAttempts
        THEN /\ jobs'[j].status = "pending"
             /\ jobs'[j].next_run_at = now + RetryDelay
             /\ jobs'[j].error_msg = cur[c].errMsg
             /\ cur[c].errMsg # NoMsg
        ELSE jobs'[j].status = "failed"

C5_TransientRetry ==
    /\ [](\A j \in JobIds : jobs[j].attempts <= MaxAttempts /\ claims[j] <= MaxAttempts)
    /\ [][\A c \in Claimers : C5_FailJobStep(c)]_vars

\* C5 witness: a job has used up its three claims on transient failures.
C5_Witness ==
    \E j \in JobIds : /\ jobs[j].status = "failed"
                      /\ claims[j] = MaxAttempts
                      /\ jobs[j].error_msg = <<"LLM call failed", 429>>

\* C6: a claim takes a job only if its status is pending and its next_run_at
\* is NULL or not later than now, both when the row is selected and when the
\* claim commits.
C6_ClaimStep(c) ==
    /\ (pc[c] = "idle" /\ pc'[c] = "claimUpdate") =>
           LET j == cur'[c].job IN
           /\ jobs[j].status = "pending"
           /\ (jobs[j].next_run_at = NULL \/ jobs[j].next_run_at <= now)
    /\ (pc[c] = "claimUpdate" /\ pc'[c] = "createAttempt") =>
           LET j == cur[c].job IN
           /\ jobs[j].status = "pending"
           /\ (jobs[j].next_run_at = NULL \/ jobs[j].next_run_at <= now)

C6_ClaimOnlyEligible == [][\A c \in Claimers : C6_ClaimStep(c)]_vars

\* C6 witness: a job with a next_run_at was claimed once that time had come,
\* and it had been waiting with next_run_at in the future before.
C6_Witness ==
    \E c \in Claimers : /\ pc[c] = "createAttempt"
                        /\ jobs[cur[c].job].next_run_at # NULL
                        /\ jobs[cur[c].job].next_run_at <= now

\* C7: when the breaker rejects the model call (BreakerOpen) the failure is
\* transient: the job is re-queued as pending with next_run_at = now + 30 s
\* if attempts < 3 and failed only when attempts has reached 3.
C7_BreakerOpenStep(c) ==
    LET j == cur[c].job IN
    (WritesFailure(c) /\ cur[c].cause = "BreakerOpen") =>
        IF jobs[j].attempts < MaxAttempts
        THEN jobs'[j].status = "pending" /\ jobs'[j].next_run_at = now + RetryDelay
        ELSE jobs'[j].status = "failed"

C7_BreakerOpenIsTransient == [][\A c \in Claimers : C7_BreakerOpenStep(c)]_vars

\* C8: when the inbound turn of the job does not exist (ContextMissing) the
\* job is written failed in that attempt, whatever its attempts counter.
C8_ContextMissingIsPermanent ==
    [][\A c \in Claimers :
          (WritesFailure(c) /\ cur[c].cause = "ContextMissing") =>
              jobs'[cur[c].job].status = "failed"]_vars

\* C9: a job reaches failed only if attempts >= 3 or the error of its most
\* recent attempt is one the specification classifies as permanent.
PermanentKinds == {"Auth", "Payment", "Moderation", "Other", "ContextMissing",
                   "ContextLength"}

C9_FailedOnlyIfExhaustedOrPermanent ==
    [][\A c \in Claimers :
          (WritesFailure(c) /\ jobs'[cur[c].job].status = "failed") =>
              \/ jobs[cur[c].job].attempts >= MaxAttempts
              \/ cur[c].cause \in PermanentKinds]_vars

\* the attempt rows of job j that are finalised
Finalised(j) ==
    { i \in 1..Len(attempts[j]) :
        attempts[j][i].status \in {"ok", "error"} /\ attempts[j][i].ended }

\* C10 as stated: every job in done or failed has attempts >= 1 and exactly
\* one JobAttempt row with status ok or error and ended_at set.
C10_ExactlyOneFinalAttempt ==
    \A j \in JobIds : jobs[j].status \in {"done", "failed"} =>
        jobs[j].attempts >= 1 /\ Cardinality(Finalised(j)) = 1

\* C10 amended: every job in done or failed has attempts >= 1, and once the
\* claimer that wrote done has also written its attempt row, the job has one
\* JobAttempt row per claim, each with status ok or error and ended_at set.
C10_OneFinalAttemptPerClaim ==
    \A j \in JobIds : jobs[j].status \in {"done", "failed"} =>
        /\ jobs[j].attempts >= 1
        /\ (\A c \in Claimers : ~(pc[c] = "attemptOk" /\ cur[c].job = j)) =>
               /\ Len(attempts[j]) = jobs[j].attempts
               /\ Cardinality(Finalised(j)) = jobs[j].attempts

\* C10 witness: a job that was re-queued has reached done or failed and its
\* claimer has returned.
C10_Witness ==
    \E j \in JobIds : /\ jobs[j].status \in {"done", "failed"}
                      /\ jobs[j].attempts >= 2
                      /\ \A c \in Claimers : cur[c].job # j

\* C11: a model error of kind Auth, Payment, Moderation or Other sends the
\* claim to permanentFailJob: the attempt row is written error, the job is
\* written failed in that claim whatever its attempts counter, and a failed
\* job is never changed again; on the first claim the job ends failed with
\* attempts = 1 and exactly one JobAttempt row, of status error.
ModelPermanentKinds == {"Auth", "Payment", "Moderation", "Other"}

C11_Step(c) ==
    LET j == cur[c].job IN
    /\ (pc[c] \in {"call", "retryCall"} /\ cur'[c].cause \in ModelPermanentKinds)
           => pc'[c] = "permAttempt"
    /\ (cur[c].cause \in ModelPermanentKinds /\ pc'[c] # pc[c]) =>
           \/ /\ pc[c] = "permAttempt" /\ pc'[c] = "permRow"
              /\ attempts'[j][cur[c].att] = [status |-> "error", ended |-> TRUE]
              /\ jobs'[j].status = "processing"
           \/ /\ pc[c] = "permRow" /\ pc'[c] = "idle"
              /\ jobs'[j].status = "failed"
              /\ jobs'[j].attempts = jobs[j].attempts
              /\ jobs[j].attempts = 1 =>
                    Len(attempts'[j]) = 1 /\ attempts'[j][1].status = "error"

C11_PermanentModelErrors ==
    /\ [][\A c \in Claimers : C11_Step(c)]_vars
    /\ [][\A j \in JobIds : jobs[j].status = "failed" => jobs'[j] = jobs[j]]_vars

\* C11 witness: a job on its second claim was failed by a non-retryable
\* model error.
C11_Witness ==
    \E j \in JobIds : /\ jobs[j].status = "failed"
                      /\ jobs[j].attempts = 2
                      /\ jobs[j].error_msg = <<"Non-retryable error", 500>>

\* C12 as stated: within one claim a ContextLength error at window 10 is
\* always followed by exactly one further invocation of the model, with the
\* context rebuilt for window 5.
C12_ExactlyOneFurtherCall ==
    [][\A c \in Claimers :
          /\ (pc[c] = "retryBuild" /\ pc'[c] # pc[c]) => pc'[c] = "retryCall"
          /\ (pc[c] = "retryCall" /\ pc'[c] # pc[c]) => cur'[c].calls = 2]_vars

\* C12 amended: a ContextLength error at window 10 leads to one rebuild of
\* the context for window 5; if the rebuild fails the job is failed with no
\* further call; if it succeeds there is exactly one further Call through the
\* breaker, which invokes the model unless the breaker rejects it.  An error
\* of that call is classified with no further narrowing (a second
\* ContextLength error goes to permanentFailJob), and the model is invoked at
\* most twice per claim.
C12_Step(c) ==
    /\ (pc[c] = "call" /\ pc'[c] # pc[c]) =>
           /\ cur[c].window = FirstWindow
           /\ (cur'[c].cause = "ContextLength") <=> (pc'[c] = "retryBuild")
           /\ pc'[c] = "retryBuild" => cur'[c].calls = 1
    /\ (pc'[c] = "retryBuild" /\ pc'[c] # pc[c]) => pc[c] = "call"
    /\ (pc[c] = "retryBuild" /\ pc'[c] # pc[c]) =>
           \/ pc'[c] = "retryCall" /\ cur'[c].window = SmallWindow /\ cur'[c].calls = 1
           \/ pc'[c] = "permAttempt" /\ cur'[c].calls = 1
    /\ (pc'[c] = "retryCall" /\ pc'[c] # pc[c]) => pc[c] = "retryBuild"
    /\ (pc[c] = "retryCall" /\ pc'[c] # pc[c]) =>
           /\ cur[c].window = SmallWindow
           /\ cur'[c].calls = IF CBRejects THEN 1 ELSE 2
           /\ pc'[c] \in {"retryFetch", "permAttempt", "failAttempt"}
           /\ (pc'[c] # "retryFetch" /\ cur'[c].cause = "ContextLength")
                 => pc'[c] = "permAttempt"

C12_OneAdaptiveRetry ==
    /\ [](\A c \in Claimers : cur[c].calls <= 2)
    /\ [][\A c \in Claimers : C12_Step(c)]_vars

\* C12 witness: the retry with window 5 was invoked and returned a second
\* ContextLength error, which fails the job.
C12_Witness ==
    \E c \in Claimers : /\ pc[c] = "permAttempt"
                        /\ cur[c].cause = "ContextLength"
                        /\ cur[c].window = SmallWindow
                        /\ cur[c].calls = 2

\* C13: when the first model call of a job's first claim returns
\* ContextLength and the retry with 5 messages succeeds and its reply is
\* sent, the job ends done with output_json written and exactly two
\* JobAttempt rows, the first of status error and the second of status ok.
C13_RetrySuccessTwoAttempts ==
    [][\A c \in Claimers :
          LET j == cur[c].job IN
          (/\ pc[c] = "attemptOk" /\ pc'[c] = "idle"
           /\ cur[c].window = SmallWindow
           /\ claims[j] = 1) =>
              /\ jobs'[j].status = "done"
              /\ jobs'[j].output # NoOutput
              /\ Len(attempts'[j]) = 2
              /\ attempts'[j][1].status = "error"
              /\ attempts'[j][2].status = "ok"]_vars

\* C14: a reply send that fails after a successful model call, with the
\* context of 10 messages or of 5, is a transient failure: the claim goes
\* through failJob, the job is re-queued as pending with
\* next_run_at = now + 30 s when attempts < 3 and failed otherwise, and
\* output_json is not written.
C14_Step(c) ==
    LET j == cur[c].job IN
    /\ (pc[c] = "send" /\ pc'[c] # pc[c]) =>
           /\ cur[c].window \in {FirstWindow, SmallWindow}
           /\ \/ pc'[c] = "writeDone" /\ sent'[j] = sent[j] + 1
              \/ /\ pc'[c] = "failAttempt" /\ sent'[j] = sent[j]
                 /\ cur'[c].cause = "SendFailed"
    /\ (cur[c].cause = "SendFailed" /\ pc'[c] # pc[c]) =>
           /\ jobs'[j].output = NoOutput
           /\ \/ pc[c] = "failAttempt" /\ pc'[c] = "failRow"
                 /\ jobs'[j].status = "processing"
              \/ /\ pc[c] = "failRow" /\ pc'[c] = "idle"
                 /\ IF jobs[j].attempts < MaxAttempts
                    THEN /\ jobs'[j].status = "pending"
                         /\ jobs'[j].next_run_at = now + RetryDelay
                    ELSE jobs'[j].status = "failed"

C14_SendFailureIsTransient == [][\A c \in Claimers : C14_Step(c)]_vars

\* C14 witness: the send of a reply obtained with the 5-message context
\* failed and the job is about to be re-queued.
C14_Witness ==
    \E c \in Claimers : /\ pc[c] = "failRow"
                        /\ cur[c].cause = "SendFailed"
                        /\ cur[c].window = SmallWindow
                        /\ jobs[cur[c].job].attempts < MaxAttempts

\* a step in which the caller's Call returned
CallStep == cbRet'.op = "Call" /\ <<cb, cbRet>>' # <<cb, cbRet>>

\* C15: while the breaker is Open and at most the cooldown has passed since
\* the last failure, a Call returns the BreakerOpen error, does not invoke
\* fn and leaves the breaker as it is; any other Call, so the first one
\* after more than the cooldown, invokes fn.
C15_OpenRejectsUntilCooldown ==
    [][CallStep =>
          IF cb.isOpen /\ now - cb.lastFailure <= Cooldown
          THEN cbRet'.err = ErrBreakerOpen /\ ~cbRet'.invoked /\ cb' = cb
          ELSE cbRet'.invoked]_vars

\* C15 witness: a Call was rejected exactly one cooldown after the last
\* failure.
C15_Witness ==
    /\ cb.isOpen /\ now - cb.lastFailure = Cooldown
    /\ cbRet.op = "Call" /\ ~cbRet.invoked /\ cbRet.err = ErrBreakerOpen

\* C16: the breaker is Open exactly when MaxFailures invoked calls have
\* failed with no successful call in between, whatever the errors; an
\* invoked call that fails adds one to the failure count, one that succeeds
\* sets it to 0 and leaves the breaker Closed; Call returns fn's error.
C16_OpensAfterMaxFailures ==
    /\ [](cb.isOpen <=> cbRet.streak >= MaxFailures)
    /\ [][(CallStep /\ cbRet'.invoked) =>
             /\ cbRet'.err = cbRet'.fnErr
             /\ IF IsOk(cbRet'.fnErr)
                THEN cb'.failures = 0 /\ ~cb'.isOpen
                ELSE /\ cb'.failures = (IF cb.isOpen THEN 0 ELSE cb.failures) + 1
                     /\ cb'.lastFailure = now]_vars

\* C16 witness: the fifth failure in a row, an authentication error, has
\* opened the breaker.
C16_Witness ==
    /\ cb.isOpen /\ cbRet.streak = MaxFailures
    /\ cbRet.op = "Call" /\ cbRet.fnErr = ErrAuth /\ cbRet.err = ErrAuth

\* C17: the breaker leaves Open only through the half-open edge of a Call,
\* taken when at least the cooldown has passed since the last failure.
C17_OpenLeavesThroughHalfOpen ==
    [][(cb.isOpen /\ ~cb'.isOpen) =>
          /\ cbRet'.op = "Call" /\ cbRet'.halfOpen
          /\ now - cb.lastFailure >= Cooldown]_vars

\* C18: the edge out of Open sets the failure count to 0 before the trial
\* call runs: a failed trial call leaves the breaker not Open with failure
\* count 1, a successful one Closed with count 0, and the breaker is Open
\* only with MaxFailures failures counted from the last such edge.
C18_HalfOpenResetsCount ==
    /\ [](cb.isOpen => cb.failures = MaxFailures /\ cbRet.streak = MaxFailures)
    /\ [][(CallStep /\ cb.isOpen /\ cbRet'.invoked) =>
             /\ cbRet'.halfOpen
             /\ ~cb'.isOpen
             /\ cb'.failures = IF IsOk(cbRet'.fnErr) THEN 0 ELSE 1]_vars

\* C18 witness: a trial call has failed and the breaker is not Open.
C18_Witness ==
    /\ cbRet.op = "Call" /\ cbRet.halfOpen /\ ~IsOk(cbRet.fnErr)
    /\ ~cb.isOpen /\ cb.failures = 1

\* C19: every job that is in processing when shutdown is signalled has a
\* written outcome (done, failed or pending) when main returns: none of them
\* is still in processing under the claim it had at the signal.
C19_InFlightJobsFinishBeforeExit ==
    life.phase = "returned" =>
        \A j \in DOMAIN life.inflight :
            ~(jobs[j].status = "processing" /\ claims[j] = life.inflight[j])

\* C20: while the worker runs, every job that is eligible for a claim is
\* eventually claimed, with or without notifications reaching the listener.
C20_EligibleEventuallyClaimed ==
    \A j \in 1..MaxJobs :
        (j <= Len(jobs) /\ Eligible(j)) ~> (j <= Len(jobs) /\ jobs[j].status = "processing")

\* C20 witness: the sweeper has claimed a job that was re-queued and became
\* eligible again, the listener being idle.
C20_Witness ==
    /\ pc["sweeper"] = "createAttempt" /\ pc["listener"] = "idle"
    /\ jobs[cur["sweeper"].job].attempts = 2

\* a step in which handler h takes a webhook in as new: the turn is inserted
TakenAsNew(h) == hpc[h] = "idle" /\ hpc'[h] = "count"

\* C21: a delivery that answers "Duplicate message" leaves the turns and the
\* jobs as they are, and a webhook whose first delivery was answered with a
\* job is never taken in as new when it is delivered again: the replay meets
\* its stored turn.
C21_ReplayIsIdempotent ==
    [][\A h \in Handlers :
          /\ (hpc[h] = "idle" /\ hresp'[h] = "duplicate" /\ hresp'[h] # hresp[h])
                => (turns' = turns /\ jobs' = jobs)
          /\ TakenAsNew(h) => \A j \in JobIds : jobs[j].mid # hloc'[h].mid]_vars

\* a webhook that parsed and is from the bot itself, or is not a text, or has
\* a blank body, or whose session does not resolve, or resolves to a bot or
\* a subscription that is not active
Dropped(w) ==
    /\ w.parses
    /\ \/ w.fromMe
       \/ w.type # "text"
       \/ TrimSpace(Body(w)) = ""
       \/ w.session \notin DOMAIN SessionTable
       \/ ~SessionTable[w.session].BotActive
       \/ ~SessionTable[w.session].SubscriptionActive

\* handler h answers a request in this step, or starts to work on one
Answers(h) == hpc[h] = "idle" /\ (hreq'[h] # hreq[h] \/ hresp'[h] # hresp[h])

\* C22: a webhook that is from_me, not text, blank, of an unresolved session
\* or of an inactive bot or subscription is answered at once with a 2xx
\* status, and the step writes no turn, no job, no attempt and raises no
\* notification.
C22_DroppedWritesNothing ==
    [][\A h \in Handlers : (Answers(h) /\ Dropped(hreq'[h])) =>
          /\ hpc'[h] = "idle"
          /\ StatusOf(hresp'[h]) \in 200..299
          /\ UNCHANGED <<lost, turns, nextTurnId, jobs, attempts, notified>>]_vars

\* C22 witness: with a job already queued, a webhook of a session whose
\* subscription is inactive has been answered "Subscription inactive".
C22_Witness ==
    \E h \in Handlers : /\ Dropped(hreq[h])
                         /\ hresp[h] = "subInactive"
                         /\ hpc[h] = "idle"
                         /\ Len(jobs) = 1

\* C23: when an intake completes (the job is enqueued and the webhook is
\* answered), the conversation holds at most MaxMessagesPerContact turns,
\* whatever other intakes of the conversation are in flight.
C23_AtMostTwentyTurnsAfterIntake ==
    [][\A h \in Handlers : (hpc[h] = "enqueue" /\ hpc'[h] = "idle") =>
          Cardinality(turns') <= MaxMessagesPerContact]_vars

\* C24: the SELECT of a claim returns the job that is smallest by
\* (priority, id) among the jobs that are pending, due, and not locked by
\* the transaction of another claimer; until the transaction commits nobody
\* else changes the row, and the commit writes status processing and
\* attempts + 1.
C24_ClaimTakesFirstEligible ==
    [][\A c \in Claimers :
          /\ (pc[c] = "idle" /\ pc'[c] = "claimUpdate") =>
                LET j == cur'[c].job
                    free == { k \in JobIds :
                                /\ jobs[k].status = "pending"
                                /\ (jobs[k].next_run_at = NULL \/ jobs[k].next_run_at <= now)
                                /\ \A d \in Claimers \ {c} :
                                       pc[d] = "claimUpdate" => cur[d].job # k }
                IN  /\ j \in free
                    /\ \A k \in free :
                          \/ jobs[j].priority < jobs[k].priority
                          \/ (jobs[j].priority = jobs[k].priority /\ j <= k)
          /\ pc[c] = "claimUpdate" =>
                LET j == cur[c].job
                IN  IF pc'[c] = "claimUpdate"
                    THEN jobs'[j] = jobs[j]
                    ELSE /\ pc'[c] = "createAttempt"
                         /\ jobs[j].status = "pending"
                         /\ jobs'[j].status = "processing"
                         /\ jobs'[j].attempts = jobs[j].attempts + 1]_vars

\* C24 witness: with job 1 locked by one claimer, the other claimer has
\* selected job 2, and both transactions are still open.
C24_Witness ==
    \E c \in Claimers, d \in Claimers :
        /\ c # d
        /\ pc[c] = "claimUpdate" /\ cur[c].job = 1
        /\ pc[d] = "claimUpdate" /\ cur[d].job = 2

\* C25: a claim writes the time of the claim to the row; the write that
\* re-queues the job happens at a time t not before that claim and sets
\* next_run_at to t + RetryDelay; and a job that was claimed before is
\* claimed again only RetryDelay or more after t.  Hence two successive
\* claims of a job are at least RetryDelay apart.
C25_ClaimsThirtySecondsApart ==
    [][\A j \in JobIds :
          /\ (jobs[j].status = "pending" /\ jobs'[j].status = "processing") =>
                /\ jobs'[j].updated_at = now
                /\ claims[j] >= 1 => now >= jobs[j].updated_at + RetryDelay
          /\ (jobs[j].status = "processing" /\ jobs'[j].status = "pending") =>
                /\ now >= jobs[j].updated_at
                /\ jobs'[j].updated_at = now
                /\ jobs'[j].next_run_at = now + RetryDelay]_vars

\* C25 witness: a job claimed and re-queued at time 0 is in its second claim,
\* taken exactly RetryDelay later.
C25_Witness ==
    \E j \in JobIds : /\ claims[j] = 2
                       /\ jobs[j].status = "processing"
                       /\ jobs[j].updated_at = RetryDelay

\* C26: a job that is pending or in processing has no usage-log entry,
\* whatever number of times it was re-queued; a failed job has exactly one,
\* with status error and zero tokens; a done job has exactly one, with status
\* ok, once the worker that wrote done has returned from processJob.
C26_OneUsageEntryPerFinishedJob ==
    \A j \in JobIds :
        /\ jobs[j].status \in {"pending", "processing"} => usage[j] = <<>>
        /\ jobs[j].status = "failed" =>
              /\ Len(usage[j]) = 1
              /\ usage[j][1].status = "error"
              /\ usage[j][1].input_tokens = 0 /\ usage[j][1].output_tokens = 0
        /\ jobs[j].status = "done" =>
              IF \E c \in Claimers : pc[c] = "attemptOk" /\ cur[c].job = j
              THEN usage[j] = <<>>
              ELSE Len(usage[j]) = 1 /\ usage[j][1].status = "ok"

\* C26 witness: a job that was re-queued twice and failed at its third
\* attempt has its one usage-log entry.
C26_Witness ==
    \E j \in JobIds : /\ jobs[j].status = "failed"
                       /\ jobs[j].attempts = MaxAttempts
                       /\ Len(usage[j]) = 1

\* C27: a failed job has an error_msg and no confirmed send.  A done job has
\* an output_json, written by the step that set done from the call that
\* succeeded in that claim: the response, the input tokens of the context
\* that call was given, its output tokens, and the latency the worker
\* measured when that call returned; it is not changed afterwards.
C27_FailedHasErrorDoneHasOutput ==
    /\ [](\A j \in JobIds :
            /\ jobs[j].status = "failed" => (jobs[j].error_msg # NoMsg /\ sent[j] = 0)
            /\ jobs[j].status = "done" => jobs[j].output.response # "")
    /\ [][\A c \in Claimers :
            LET j == cur[c].job IN
            /\ (pc[c] \in {"call", "retryCall"} /\ pc'[c] \in {"send", "retryFetch"}) =>
                  /\ cur'[c].latency = now - cur[c].start
                  /\ cur'[c].window = cur[c].window
            /\ (pc[c] \in {"send", "retryFetch", "writeDone"} /\ pc'[c] # "failAttempt") =>
                  /\ cur'[c].latency = cur[c].latency
                  /\ cur'[c].window = cur[c].window
            /\ (pc[c] = "writeDone" /\ pc'[c] # pc[c]) =>
                  /\ jobs'[j].status = "done"
                  /\ jobs'[j].output = [response |-> "reply",
                                        input_tokens |-> cur[c].window,
                                        output_tokens |-> 1,
                                        latency_ms |-> cur[c].latency]]_vars
    /\ [][\A j \in JobIds : jobs[j].status = "done" => jobs'[j] = jobs[j]]_vars

\* C27 witness: a job is done with the output of a retry call with 5
\* messages that returned one clock step after the retry started.
C27_Witness ==
    \E j \in JobIds : /\ jobs[j].status = "done"
                       /\ jobs[j].output.input_tokens = SmallWindow
                       /\ jobs[j].output.latency_ms = TickStep

\* the failures processJob and handleLLMError pass on to failJob or to
\* permanentFailJob
EssentialCauses ==
    {"ContextMissing", "Persistence", "SendFailed", "BreakerOpen",
     "Auth", "Payment", "Moderation", "ContextLength", "Retryable", "Other"}

\* C28: a failed best-effort step (marking read, the typing indicator,
\* storing the reply) never sends a claim to failJob or permanentFailJob:
\* every failure a claimer starts to write has one of the essential causes,
\* the step in which a best-effort step fails goes where it goes when the
\* step succeeds, and the goroutine that stores the reply changes no job
\* row, no attempt row and no send, whether its insert fails or not.
C28_BestEffortNeverChangesOutcome ==
    /\ [][\A c \in Claimers :
             /\ (pc[c] \notin {"failAttempt", "permAttempt"}
                  /\ pc'[c] \in {"failAttempt", "permAttempt"})
                   => cur'[c].cause \in EssentialCauses
             /\ (pc[c] = "fetch" /\ pc'[c] # pc[c]) =>
                   pc'[c] = IF TurnExists(jobs[cur[c].job].mid) THEN "build" ELSE "failAttempt"
             /\ (pc[c] = "call" /\ pc'[c] # pc[c] /\ cur'[c].cause = "none") =>
                   pc'[c] = "send"]_vars
    /\ [][(spc' # spc /\ pc' = pc) =>
             UNCHANGED <<jobs, attempts, sent, claims, usage>>]_vars

\* C28 witness: a claim in which a best-effort step failed has sent the
\* reply and written the job done at its first attempt, and the goroutine
\* that stores the reply has ended.
C28_Witness ==
    \E c \in Claimers :
        /\ lost[c]
        /\ pc[c] = "attemptOk"
        /\ spc[c] = "idle"
        /\ jobs[cur[c].job].status = "done"
        /\ jobs[cur[c].job].attempts = 1
        /\ sent[cur[c].job] = 1

\* C29: a webhook that passes the gates and whose message_id is not stored
\* creates one turn of that message_id with from_me and is_read false; from
\* there the handler comes back only by enqueueing or with an error
\* response; enqueueing adds one job - pending, priority 5, attempts 0, no
\* next_run_at, no output, the webhook's body as input_json and the
\* session's user - raises one notification for it and answers "queued"
\* with the id of that job.  No later step raises another notification.
C29_AcceptedWebhookQueuesOneJob ==
    /\ [][\A h \in Handlers :
             /\ TakenAsNew(h) =>
                   /\ hloc'[h].mid \notin StoredMids
                   /\ \E r \in turns' \ turns :
                         /\ turns' = turns \cup {r}
                         /\ r.mid = hloc'[h].mid /\ ~r.fromMe /\ ~r.isRead
                   /\ jobs' = jobs /\ notified' = notified
             /\ (hpc[h] # "idle" /\ hpc'[h] = "idle") =>
                   \/ hresp'[h] \in {"saveFailed", "enqueueFailed"}
                   \/ /\ hpc[h] = "enqueue"
                      /\ hresp'[h] = "queued"
                      /\ hloc'[h].job = Len(jobs) + 1
                      /\ turns' = turns
                      /\ notified' = Append(notified, 1)
                      /\ jobs' = Append(jobs,
                            [status |-> "pending", priority |-> 5, attempts |-> 0,
                             next_run_at |-> NULL, error_msg |-> NoMsg, output |-> NoOutput,
                             mid |-> hloc[h].mid,
                             input |-> IF hreq[h].ext # "" THEN hreq[h].ext ELSE hreq[h].conv,
                             user |-> SessionTable[hreq[h].session].UserID,
                             updated_at |-> now])]_vars
    /\ [](\A j \in JobIds : notified[j] = 1)

\* C29 witness: the second accepted webhook, whose body comes from
\* ExtendedTextMessage.Text, has been answered "queued" with job id 2.
C29_Witness ==
    \E h \in Handlers : /\ hresp[h] = "queued"
                         /\ hreq[h].ext = "hello"
                         /\ hloc[h].job = 2
                         /\ jobs[2].input = "hello"
                         /\ Len(notified) = 2

\* C30: the status is 400 exactly when the payload does not parse.  It is
\* 500 exactly when a statement of the save of the turn (the insert, or the
\* pruning that follows it) fails for another reason than the message_id
\* conflict, or the insert of the job fails: a request answered at once with
\* 500 passed the gates and wrote nothing, and a handler that has stored the
\* turn comes back with 500 exactly when it enqueued no job.  Every other
\* answer is 200.  A 400 leaves every table as it was, and no 500 comes
\* with a job.
C30_IntakeStatusCodes ==
    [][\A h \in Handlers :
          LET code == StatusOf(hresp'[h]) IN
          /\ (Answers(h) /\ hpc'[h] = "idle") =>
                /\ code \in {200, 400, 500}
                /\ (code = 400) <=> ~hreq'[h].parses
                /\ code = 500 => (hreq'[h].parses /\ ~Dropped(hreq'[h]))
                /\ UNCHANGED <<turns, nextTurnId, jobs, attempts, notified>>
          /\ (hpc[h] # "idle" /\ hpc'[h] = "idle") =>
                /\ code \in {200, 500}
                /\ (code = 500) <=> (jobs' = jobs)
                /\ (code = 200) <=> (Len(jobs') = Len(jobs) + 1)
                /\ turns' = turns]_vars

\* C30 witness: the pruning failed after the turn was inserted: the webhook
\* is answered 500, its turn is stored and there is no job.
C30_Witness ==
    \E h \in Handlers : /\ hresp[h] = "saveFailed"
                         /\ hpc[h] = "idle"
                         /\ StoredMids \cap MsgIds # {}
                         /\ jobs = <<>>

\* C31: filterRelevantDocuments returns a permutation of its input in which
\* the scores do not increase and documents of equal score keep the order
\* they had in the input.
C31_StableDescendingPermutation ==
    kb.called =>
        LET r == kb.result IN
        /\ Len(r) = Len(kb.docs)
        /\ { r[i].pos : i \in 1..Len(r) } = 1..Len(kb.docs)
        /\ \A i \in 1..Len(r) : r[i].doc = kb.docs[r[i].pos]
        /\ \A i, j \in 1..Len(r) :
              i < j => \/ r[i].score > r[j].score
                       \/ r[i].score = r[j].score /\ r[i].pos < r[j].pos

\* the jobs in processing that claimer c holds
HeldBy(c) == { j \in JobIds : jobs[j].status = "processing" /\ Owns(c) /\ cur[c].job = j }

\* C32: a run of the claim loop holds at most one job in processing: every
\* job in processing is the one job of a claimer that is inside processJob,
\* a claimer selects a job only when it holds none (the outcome of its
\* previous job is written), and it selects only when an eligible unlocked
\* job exists, the first of them; otherwise it takes no step (the loop
\* returns).
C32_OneJobPerClaimLoop ==
    /\ [](\A j \in JobIds : jobs[j].status = "processing" =>
             \E c \in Claimers : HeldBy(c) = {j})
    /\ [][\A c \in Claimers : (pc[c] = "idle" /\ pc'[c] # "idle" /\ pc'[c] # "exited") =>
             /\ HeldBy(c) = {}
             /\ \A j \in JobIds : jobs[j].status = "processing" =>
                   \E d \in Claimers \ {c} : HeldBy(d) = {j}
             /\ Selectable # {}
             /\ cur'[c].job = FirstJob(Selectable)
             /\ jobs' = jobs]_vars

\* C32 witness: the sweeper, working alone, holds the second job after it
\* has written the outcome of the first.
C32_Witness ==
    /\ HeldBy("sweeper") = {2}
    /\ pc["listener"] = "idle"
    /\ claims[1] >= 1
    /\ jobs[1].status \in {"done", "failed", "pending"}

\* a claimer is inside processJob with row k of job j as its attempt
Handling(j, k) ==
    \E c \in Claimers : pc[c] # "idle" /\ cur[c].job = j /\ cur[c].att = k

\* C33: once processJob has returned from a claim, the attempt row it
\* created has ended_at set and status ok or error, and it is ok exactly
\* when that claim wrote the job done (done is final, so it is the last row
\* of a done job); no row of a finished claim is left in processing.
C33_FinishedClaimHasFinalAttempt ==
    \A j \in JobIds : \A k \in 1..Len(attempts[j]) :
        ~Handling(j, k) =>
            /\ attempts[j][k].ended
            /\ attempts[j][k].status \in {"ok", "error"}
            /\ attempts[j][k].status = "ok" <=>
                  (jobs[j].status = "done" /\ k = Len(attempts[j]))

\* C33 witness: a job was re-queued once and then done; both claims are
\* finished, the first row is error and the second ok.
C33_Witness ==
    \E j \in JobIds :
        /\ jobs[j].status = "done"
        /\ Len(attempts[j]) = 2
        /\ ~Handling(j, 1) /\ ~Handling(j, 2)
        /\ attempts[j][1].status = "error"
        /\ attempts[j][2].status = "ok"

\* C34: for every job in status pending or processing the turn with the
\* job's message_id is stored: pruning never deletes the turn of an
\* unfinished job.
C34_UnfinishedJobHasItsTurn ==
    \A j \in JobIds :
        jobs[j].status \in {"pending", "processing"} => jobs[j].mid \in StoredMids

\* C35: a webhook that passes the gates is not lost: when a delivery of it
\* is answered with a 2xx status, a job with its message_id exists.  For the
\* answer "queued" the message is the one of the handler; an answer
\* "Duplicate message" given while one message of the sender is stored is the
\* answer to a delivery of that message.
C35_AnsweredWebhookHasJob ==
    [][\A h \in Handlers :
          /\ (hpc[h] = "enqueue" /\ hresp'[h] = "queued") =>
                \E j \in 1..Len(jobs') : jobs'[j].mid = hloc[h].mid
          /\ \A m \in MsgIds :
                (/\ hpc[h] = "idle"
                 /\ hresp'[h] = "duplicate"
                 /\ hresp'[h] # hresp[h]
                 /\ StoredMids \cap MsgIds = {m}) =>
                    \E j \in JobIds : jobs[j].mid = m]_vars

\* C36: a job leaves processing only by the write of the outcome by the
\* claimer that holds it; a job that was in processing when the process was
\* killed keeps its row and is not claimed again, whatever the restarted
\* worker does.
C36_ProcessingLeftOnlyByItsClaimer ==
    /\ [][\A j \in JobIds :
             (jobs[j].status = "processing" /\ jobs'[j] # jobs[j]) =>
                \E c \in Claimers : /\ HeldBy(c) = {j}
                                    /\ pc[c] \in {"writeDone", "failRow", "permRow"}
                                    /\ pc'[c] # pc[c]]_vars
    /\ [][\A j \in DOMAIN life.inflight :
             /\ jobs'[j] = jobs[j]
             /\ jobs[j].status = "processing"
             /\ claims'[j] = claims[j]
             /\ attempts'[j] = attempts[j]]_vars

\* C36 witness: after the restart a claimer holds the other job, claimed
\* after the restart, while the job that was in processing at the kill is
\* still in processing.
C36_Witness ==
    /\ life.phase = "restarted"
    /\ \E j \in DOMAIN life.inflight, c \in Claimers :
          /\ jobs[j].status = "processing"
          /\ HeldBy(c) # {}
          /\ HeldBy(c) # {j}

\* C37: at most one wrapped call runs per breaker at any time: the goroutine
\* inside fn() holds cb.mu as writer, nobody else is inside Call, IsOpen or
\* Reset, and while a call is in flight no other goroutine's Call, IsOpen or
\* Reset makes a step, so none of them returns.
C37_OneCallInFlight ==
    /\ [](Cardinality(InFn) <= 1)
    /\ [](\A g \in InFn :
             /\ lk.writer = g
             /\ lk.readers = {}
             /\ \A o \in Callers \ {g} :
                   lk.pos[o] \in {"out", "wantCall", "wantIsOpen", "wantReset"})
    /\ [][\A g \in InFn : \A o \in Callers \ {g} : lk'.pos[o] \in {lk.pos[o], "wantCall", "wantIsOpen", "wantReset"}]_vars

\* C37 witness: the listener is inside fn() while the sweeper's Call and the
\* operator's Reset wait for the lock.
C37_Witness ==
    /\ lk.pos["listener"] = "fn"
    /\ lk.pos["sweeper"] = "wantCall"
    /\ lk.pos["operator"] = "wantReset"

\* C38: between the operations of the breaker the failure count lies in
\* 0..MaxFailures and the breaker is open exactly when the count has reached
\* MaxFailures.
C38_CountBoundedOpenAtMax ==
    /\ cb.failures \in 0..MaxFailures
    /\ cb.isOpen <=> cb.failures >= MaxFailures

\* C38 witness: the breaker was open, the cooldown passed, and the call let
\* through failed: the count restarted at 1 and the breaker is closed.
C38_Witness ==
    /\ cbRet.op = "Call"
    /\ cbRet.halfOpen
    /\ ~IsOk(cbRet.fnErr)
    /\ cb.failures = 1
    /\ ~cb.isOpen

\* C39: the attempts counter of a job never decreases and equals the number
\* of committed claims of the job, and when no claimer stands between the
\* commit of a claim of the job and the insert of its attempt row, the job
\* has as many attempt rows as its attempts counter says.
C39_AttemptsCountsClaims ==
    /\ [](\A j \in JobIds : jobs[j].attempts = claims[j])
    /\ [][\A j \in JobIds : jobs'[j].attempts >= jobs[j].attempts]_vars
    /\ [](\A j \in JobIds :
             (\A c \in Claimers : ~(pc[c] = "createAttempt" /\ cur[c].job = j)) =>
                 Len(attempts[j]) = jobs[j].attempts)

\* C39 witness: a job was claimed three times; its third attempt row is
\* written.
C39_Witness ==
    \E j \in JobIds : /\ jobs[j].attempts = MaxAttempts
                      /\ claims[j] = MaxAttempts
                      /\ Len(attempts[j]) = MaxAttempts

====
